---- MODULE Spec2Model ----
(***************************************************************************)
(* tensorchat-streaming: the buffering client TensorchatStreaming          *)
(* (src/src/TensorChatStreaming.ts) and the coalescing client before it.   *)
(*                                                                         *)
(* Text is a sequence of units.  A unit is one newline, the six-character  *)
(* prefix 'data: ', the JSON text of one event object, a run of text that  *)
(* is not JSON, or a character outside ASCII; on the wire the latter is    *)
(* two bytes (a lead byte and a continuation byte).                        *)
(*                                                                         *)
(* A call of streamProcess is suspended at await fetch and at each await   *)
(* reader.read(); what runs between two suspensions is one action.  The    *)
(* trace of a call records, in order, every event JSON.parse returned and  *)
(* every callback invoked with its argument.                               *)
(*                                                                         *)
(* Spec:      one call; every read delivers 1..MaxBatch whole frames.      *)
(* SpecBytes: one call; the server writes pieces of wire text and every    *)
(*            read delivers 1..MaxRead of the bytes written so far.        *)
(* SpecThrow: one call of a caller some of whose callbacks throw.          *)
(* SpecFinite: SpecThrow on a response that ends: an awaited read settles. *)
(* SpecAbsorb: one call of a caller some of whose event callbacks throw.   *)
(* SpecTail:  one call; the server leaves out delimiters.                  *)
(* SpecPartial: one call; per-job events without index or fragment.        *)
(* SpecEvents: one call; the response carries events of every type.        *)
(* SpecReuse: two calls on one client, the second after the first settled. *)
(* SpecOverlap: two calls on one client in flight at the same time.        *)
(* SpecNotices: one call; search notifications and frames that are not    *)
(*            data frames among the frames of a job.                       *)
(* SpecLifecycle: two calls on one client and destroy() at any time.       *)
(* SpecManager: a TensorchatStreamingManager reconfigured, destroyed and   *)
(*            streamed through.                                            *)
(* SpecDelay: the coalescing client constructed with a throttleMs.         *)
(*                                                                         *)
(* The coalescing client (src/unnamed/part_006) has the same streamProcess *)
(* around another switch: onTensorChunk is invoked from a timer that every *)
(* fragment of the index sets again.  Its fetch, read and catch statements *)
(* are those of the buffering client, and so are their actions here.       *)
(*                                                                         *)
(* SpecCoalescing: one call of the coalescing client; timers expire at any *)
(*            time between two reads and after the call has settled.       *)
(* SpecCoalescingThrow: the same for a caller whose onTensorChunk throws.  *)
(* SpecDestroy: a client of either class, one call, destroy() at any time. *)
(***************************************************************************)
EXTENDS Integers, Sequences, FiniteSets, TLC

\* ------------------------------------------------------------------ bounds
\* frames one response carries at most (frame-level specification)
MaxFrames == 4
\* frames one read delivers at most (frame-level specification)
MaxBatch == 2
\* calls of destroy() made on one client at most
MaxDestroys == 2
\* frames one response carries at most when the client serves two calls
MaxFramesEach == 2
\* pieces of wire text one response carries at most (byte-level specification)
MaxPieces == 3
\* bytes one read delivers at most (byte-level specification)
MaxRead == 3
\* how many calls a caller makes on its manager
MaxCalls == 3

\* ------------------------------------------------------------------ values
Sessions == {1, 2}
Idx == {0, 1}
\* a field that is absent from the JSON object (undefined in JavaScript)
Undefined == "undefined"
NoIndex == -1
NoError == "<none>"
\* an optional number the caller left out
Absent == -1
\* new Map()
EmptyMap == [i \in {} |-> <<>>]

Newline == [ch |-> "\n"]
DataPrefix == [ch |-> "data: "]
Junk == [ch |-> "junk"]
LeadByte == [ch |-> "0xC3"]
ContByte == [ch |-> "0xA9"]
EAcute == [ch |-> "e-acute"]
Replacement == [ch |-> "U+FFFD"]
Json(ev) == [ch |-> "json", value |-> ev]

\* StreamEventData: result.content is the field content; seq is the ordinal the
\* producer gave the frame (a payload field the client passes through untouched)
Event(type, index, chunk, error, details, content, seq) ==
  [type |-> type, index |-> index, chunk |-> chunk, error |-> error,
   details |-> details, content |-> content, seq |-> seq]

SearchProgress(i, q) == Event("search_progress", i, Undefined, Undefined, Undefined, Undefined, q)
SearchComplete(i, q) == Event("search_complete", i, Undefined, Undefined, Undefined, Undefined, q)
TensorChunk(i, c, q) == Event("tensor_chunk", i, c, Undefined, Undefined, Undefined, q)
TensorComplete(i, r, q) == Event("tensor_complete", i, Undefined, Undefined, Undefined, r, q)
\* a tensor_complete event that carries a final fragment
TensorCompleteWithChunk(i, c, q) == Event("tensor_complete", i, c, Undefined, Undefined, Undefined, q)
Complete(q) == Event("complete", NoIndex, Undefined, Undefined, Undefined, Undefined, q)
TensorError(i, q) == Event("tensor_error", i, Undefined, Undefined, Undefined, Undefined, q)
StartEvent(q) == Event("start", NoIndex, Undefined, Undefined, Undefined, Undefined, q)
Progress(i, q) == Event("progress", i, Undefined, Undefined, Undefined, Undefined, q)
ErrorEvent(t, e, d, q) == Event(t, NoIndex, Undefined, e, d, Undefined, q)

\* ------------------------------------------------------------------ JavaScript
Min(S) == CHOOSE x \in S : \A y \in S : x <= y

\* a string in a condition: undefined and '' are falsy
Truthy(str) == str # Undefined /\ str # ""

\* a || b
OrElse(a, b) == IF Truthy(a) THEN a ELSE b

\* buffer.slice(from, to), zero-based, to exclusive
Slice(text, from, to) == SubSeq(text, from + 1, to)

\* buffer.indexOf('\n\n', startIndex), zero-based, -1 when there is none
IndexOfDelimiter(text, startIndex) ==
  LET hits == {i \in startIndex..(Len(text) - 2) :
                 text[i + 1] = Newline /\ text[i + 2] = Newline}
  IN IF hits = {} THEN -1 ELSE Min(hits)

\* line.startsWith('data: ')
StartsWithData(line) == Len(line) >= 1 /\ line[1] = DataPrefix

RECURSIVE TrimLeft(_)
TrimLeft(text) ==
  IF text # <<>> /\ Head(text) = Newline THEN TrimLeft(Tail(text)) ELSE text

RECURSIVE TrimRight(_)
TrimRight(text) ==
  IF text # <<>> /\ text[Len(text)] = Newline
  THEN TrimRight(SubSeq(text, 1, Len(text) - 1)) ELSE text

\* JSON.parse: white space around the one value is allowed, anything else is a
\* SyntaxError
JsonParses(text) ==
  LET t == TrimRight(TrimLeft(text)) IN Len(t) = 1 /\ t[1].ch = "json"

JsonParse(text) == TrimRight(TrimLeft(text))[1].value

\* chunks.join('')
RECURSIVE Join(_)
Join(chunks) == IF chunks = <<>> THEN "" ELSE Head(chunks) \o Join(Tail(chunks))

\* TextDecoder.decode(value, {stream: true}): an incomplete character at the end
\* of value is held back for the next call; a lead byte not followed by its
\* continuation, and a continuation on its own, decode to U+FFFD
RECURSIVE DecodeLoop(_, _, _)
DecodeLoop(held, value, text) ==
  IF value = <<>> THEN [text |-> text, held |-> held]
  ELSE LET b == Head(value) IN
    IF held # <<>>
    THEN IF b = ContByte
         THEN DecodeLoop(<<>>, Tail(value), Append(text, EAcute))
         ELSE DecodeLoop(<<>>, value, Append(text, Replacement))
    ELSE IF b = LeadByte THEN DecodeLoop(<<b>>, Tail(value), text)
    ELSE IF b = ContByte THEN DecodeLoop(<<>>, Tail(value), Append(text, Replacement))
    ELSE DecodeLoop(<<>>, Tail(value), Append(text, b))

Decode(held, value) == DecodeLoop(held, value, <<>>)

\* ------------------------------------------------------------------ processBuffer
\* ExtractLoop that searches on from the second newline of the delimiter it found
RECURSIVE ExtractLoopOverlapping(_, _, _)
ExtractLoopOverlapping(buf, startIndex, lines) ==
  LET lineEnd == IndexOfDelimiter(buf, startIndex) IN
  IF lineEnd = -1
  THEN [lines |-> lines, remainingBuffer |-> Slice(buf, startIndex, Len(buf))]
  ELSE ExtractLoopOverlapping(buf, lineEnd + 1, Append(lines, Slice(buf, startIndex, lineEnd)))

\* while (true) { lineEnd = buffer.indexOf('\n\n', startIndex); if (lineEnd === -1) break;
\* lines.push(buffer.slice(startIndex, lineEnd)); startIndex = lineEnd + 2 }
\* return { lines, remainingBuffer: buffer.slice(startIndex) }
RECURSIVE ExtractLoop(_, _, _)
ExtractLoop(buf, startIndex, lines) ==
  LET lineEnd == IndexOfDelimiter(buf, startIndex) IN
  IF lineEnd = -1
  THEN [lines |-> lines, remainingBuffer |-> Slice(buf, startIndex, Len(buf))]
  ELSE ExtractLoop(buf, lineEnd + 2, Append(lines, Slice(buf, startIndex, lineEnd)))

\* processBuffer that returns an empty remainder
processBufferDropsRest(buf) ==
  [lines |-> ExtractLoop(buf, 0, <<>>).lines, remainingBuffer |-> <<>>]

processBuffer(buf) == ExtractLoop(buf, 0, <<>>)

\* the values startIndex takes at the tests of the while loop of processBuffer
RECURSIVE SearchPositions(_, _)
SearchPositions(buf, startIndex) ==
  LET lineEnd == IndexOfDelimiter(buf, startIndex) IN
  IF lineEnd = -1 THEN <<startIndex>>
  ELSE <<startIndex>> \o SearchPositions(buf, lineEnd + 2)

\* the original extractor with buffer.slice(lineEnd + 1)
RECURSIVE originalExtractKeepsNewline(_, _)
originalExtractKeepsNewline(buf, lines) ==
  LET lineEnd == IndexOfDelimiter(buf, 0) IN
  IF lineEnd = -1 THEN [lines |-> lines, remainingBuffer |-> buf]
  ELSE originalExtractKeepsNewline(Slice(buf, lineEnd + 1, Len(buf)),
                                   Append(lines, Slice(buf, 0, lineEnd)))

\* the extractor of the earlier client, without its dispatch:
\* while (buffer.includes('\n\n')) { lineEnd = buffer.indexOf('\n\n');
\* line = buffer.slice(0, lineEnd); buffer = buffer.slice(lineEnd + 2) }
RECURSIVE originalExtract(_, _)
originalExtract(buf, lines) ==
  LET lineEnd == IndexOfDelimiter(buf, 0) IN
  IF lineEnd = -1 THEN [lines |-> lines, remainingBuffer |-> buf]
  ELSE originalExtract(Slice(buf, lineEnd + 2, Len(buf)), Append(lines, Slice(buf, 0, lineEnd)))

\* ------------------------------------------------------------------ dispatch
\* What one pass over the lines of a read works on: the client's two collections,
\* the observable trace of the session (events decoded, callbacks invoked), the
\* callbacks of the caller that throw, and how the pass is left.
\*   returned: the `return` of the complete case was executed
\*   thrown:   the message of an exception in flight, NoError when there is none

EventEntry(data) == [kind |-> "event", data |-> data]
CallEntry(cb, arg) == [kind |-> "call", cb |-> cb, arg |-> arg]

\* callback?.(arg): the invocation is observed, then the callback may throw
Invoke(st, cb, arg) ==
  [st EXCEPT !.trace = Append(@, CallEntry(cb, arg)),
             !.thrown = IF cb \in st.throwing THEN "callback threw" ELSE @]

\* case 'search_progress'
OnSearchProgress(st, data) == Invoke(st, "onSearchProgress", data)

\* a search_complete case that also marks the index completed
OnSearchCompleteMarks(st, data) ==
  Invoke([st EXCEPT !.completedTensors = @ \cup {data.index}], "onSearchComplete", data)

\* case 'search_complete'
OnSearchComplete(st, data) == Invoke(st, "onSearchComplete", data)

\* OnTensorChunk without the test of completedTensors
OnTensorChunkUnguarded(st, data) ==
  IF data.index # NoIndex /\ Truthy(data.chunk)
  THEN LET tb == st.tensorBuffers
           had == IF data.index \in DOMAIN tb THEN tb ELSE tb @@ (data.index :> <<>>)
           pushed == [had EXCEPT ![data.index] = Append(@, data.chunk)]
       IN Invoke([st EXCEPT !.tensorBuffers = pushed], "onTensorChunk", data)
  ELSE st

\* OnTensorChunk with if (data.index && ...): the index 0 is falsy
OnTensorChunkTruthyIndex(st, data) ==
  IF data.index # NoIndex /\ data.index # 0 /\ Truthy(data.chunk)
     /\ data.index \notin st.completedTensors
  THEN LET tb == st.tensorBuffers
           had == IF data.index \in DOMAIN tb THEN tb ELSE tb @@ (data.index :> <<>>)
           pushed == [had EXCEPT ![data.index] = Append(@, data.chunk)]
       IN Invoke([st EXCEPT !.tensorBuffers = pushed], "onTensorChunk", data)
  ELSE st

\* case 'tensor_chunk'
OnTensorChunk(st, data) ==
  IF data.index # NoIndex /\ Truthy(data.chunk) /\ data.index \notin st.completedTensors
  THEN LET tb == st.tensorBuffers
           had == IF data.index \in DOMAIN tb THEN tb ELSE tb @@ (data.index :> <<>>)
           pushed == [had EXCEPT ![data.index] = Append(@, data.chunk)]
       IN Invoke([st EXCEPT !.tensorBuffers = pushed], "onTensorChunk", data)
  ELSE st

\* CompleteData with the spread after content: {content, ...data.result}
CompleteDataResultWins(data, bufferedChunks) ==
  [type |-> data.type, index |-> data.index, chunk |-> data.chunk,
   error |-> data.error, details |-> data.details, seq |-> data.seq,
   streamBuffers |-> bufferedChunks,
   content |-> IF data.content # Undefined THEN data.content ELSE Join(bufferedChunks)]

\* the record handed to onTensorComplete: {...data, streamBuffers, result: {...data.result, content}}
CompleteData(data, bufferedChunks) ==
  [type |-> data.type, index |-> data.index, chunk |-> data.chunk,
   error |-> data.error, details |-> data.details, seq |-> data.seq,
   streamBuffers |-> bufferedChunks, content |-> Join(bufferedChunks)]

\* a tensor_complete case without this.tensorBuffers.delete(data.index)
OnTensorCompleteKeepsBuffer(st, data) ==
  IF data.index # NoIndex
  THEN LET tb == st.tensorBuffers
           bufferedChunks == IF data.index \in DOMAIN tb THEN tb[data.index] ELSE <<>>
       IN Invoke([st EXCEPT !.completedTensors = @ \cup {data.index}],
                 "onTensorComplete", CompleteData(data, bufferedChunks))
  ELSE st

\* case 'tensor_complete'
OnTensorComplete(st, data) ==
  IF data.index # NoIndex
  THEN LET tb == st.tensorBuffers
           bufferedChunks == IF data.index \in DOMAIN tb THEN tb[data.index] ELSE <<>>
           deleted == [i \in DOMAIN tb \ {data.index} |-> tb[i]]
       IN Invoke([st EXCEPT !.completedTensors = @ \cup {data.index},
                            !.tensorBuffers = deleted],
                 "onTensorComplete", CompleteData(data, bufferedChunks))
  ELSE st

\* OnComplete with a break in place of the return
OnCompleteBreaks(st, data) == Invoke(st, "onComplete", data)

\* case 'complete': the return is reached when onComplete did not throw
OnComplete(st, data) ==
  LET r == Invoke(st, "onComplete", data)
  IN IF r.thrown # NoError THEN r ELSE [r EXCEPT !.returned = TRUE]

\* new Error(data.error || data.details || 'Streaming error').message
StreamErrorMessage(data) == OrElse(data.error, OrElse(data.details, "Streaming error"))

\* case 'error', case 'fatal_error'
OnErrorEvent(st, data) == [st EXCEPT !.thrown = StreamErrorMessage(data)]

\* switch (data.type): a type with no case falls through the switch
Switch(st, data) ==
  CASE data.type = "search_progress" -> OnSearchProgress(st, data)
    [] data.type = "search_complete" -> OnSearchComplete(st, data)
    [] data.type = "tensor_chunk" -> OnTensorChunk(st, data)
    [] data.type = "tensor_complete" -> OnTensorComplete(st, data)
    [] data.type = "complete" -> OnComplete(st, data)
    [] data.type \in {"error", "fatal_error"} -> OnErrorEvent(st, data)
    [] OTHER -> st

\* try { JSON.parse; switch }: a SyntaxError of JSON.parse is an exception in flight
TryFrame(st, line) ==
  LET payload == Slice(line, 1, Len(line))
  IN IF JsonParses(payload)
     THEN LET data == JsonParse(payload)
          IN Switch([st EXCEPT !.trace = Append(@, EventEntry(data))], data)
     ELSE [st EXCEPT !.thrown = "SyntaxError"]

\* CatchFrame that throws what it caught again
CatchFrameRethrows(st) == st

\* catch (parseError) { if (this.verbose) console.warn(...) }: whatever the try
\* block threw ends here
CatchFrame(st) == [st EXCEPT !.thrown = NoError]

\* DispatchLine that skips the newlines a line starts with
DispatchLineTrimmed(st, line) ==
  IF StartsWithData(TrimLeft(line)) THEN CatchFrame(TryFrame(st, TrimLeft(line))) ELSE st

\* the body of  for (const line of lines)
DispatchLine(st, line) ==
  IF StartsWithData(line) THEN CatchFrame(TryFrame(st, line)) ELSE st

\* DispatchLines taking the lines from the end of the array (lines.pop())
RECURSIVE DispatchLinesFromEnd(_, _)
DispatchLinesFromEnd(st, lines) ==
  IF lines = <<>> \/ st.returned \/ st.thrown # NoError THEN st
  ELSE DispatchLinesFromEnd(DispatchLine(st, lines[Len(lines)]),
                            SubSeq(lines, 1, Len(lines) - 1))

\* for (const line of lines) { ... }: left early by the return of the complete case
RECURSIVE DispatchLines(_, _)
DispatchLines(st, lines) ==
  IF lines = <<>> \/ st.returned \/ st.thrown # NoError THEN st
  ELSE DispatchLines(DispatchLine(st, Head(lines)), Tail(lines))

\* one iteration of the read loop after read() delivered value:
\* decode, processBuffer, dispatch
ReadStep(st, value) ==
  LET dec == Decode(st.held, value)
      pb == processBuffer(st.buffer \o dec.text)
  IN DispatchLines([st EXCEPT !.held = dec.held, !.buffer = pb.remainingBuffer], pb.lines)

\* ------------------------------------------------------------------ the coalescing client
\* The client of src/unnamed/part_006: no fragment buffers; onTensorChunk is
\* invoked from a timer, one timer per key, set again by every fragment.
\* A pass works on the record of the buffering client without tensorBuffers and
\* with
\*   throttleTimers: this.throttleTimers
\*   timers:         the timers of the event loop that are set and not yet fired
\*   call:           the call of streamProcess the pass belongs to

\* `chunk-${index}`
ChunkKey(index) == <<"chunk", index>>

\* parseInt(key.split('-')[1])
KeyIndex(key) == key[2]

\* the config the client was constructed with
VARIABLE config

\* Default 50ms throttle
DefaultThrottleMs == 50

\* this.throttleMs, as the constructor of the coalescing client sets it:
\* config.throttleMs || 50
throttleMs ==
  IF config.throttleMs # Absent /\ config.throttleMs # 0 THEN config.throttleMs
  ELSE DefaultThrottleMs

\* what window.setTimeout(fn, this.throttleMs) returns: the handle of a timer
\* that will invoke the onTensorChunk of a call with data, delay ms from now
Timer(key, call, data) == [key |-> key, call |-> call, data |-> data, delay |-> throttleMs]

\* throttle that leaves the timer it replaces running
throttleNoClear(st, key, data) ==
  LET tt == st.throttleTimers
      t == Timer(key, st.call, data)
  IN [st EXCEPT !.timers = @ \cup {t},
                !.throttleTimers = [k \in DOMAIN tt \cup {key} |-> IF k = key THEN t ELSE tt[k]]]

\* throttle(key, fn, ...args) with fn = onTensorChunk, args = data
throttle(st, key, data) ==
  LET tt == st.throttleTimers
      old == IF key \in DOMAIN tt THEN {tt[key]} ELSE {}
      t == Timer(key, st.call, data)
  IN [st EXCEPT !.timers = (@ \ old) \cup {t},
                !.throttleTimers = [k \in DOMAIN tt \cup {key} |-> IF k = key THEN t ELSE tt[k]]]

\* clearTensorThrottles that clears nothing
clearTensorThrottlesNothing(st, tensorIndex) == st

\* clearTensorThrottles(tensorIndex)
clearTensorThrottles(st, tensorIndex) ==
  LET tt == st.throttleTimers
      chunkKey == ChunkKey(tensorIndex)
  IN IF chunkKey \in DOMAIN tt
     THEN [st EXCEPT !.timers = @ \ {tt[chunkKey]},
                     !.throttleTimers = [k \in DOMAIN tt \ {chunkKey} |-> tt[k]]]
     ELSE st

\* processChunkImmediate(data, onTensorChunk)
processChunkImmediate(st, data) ==
  IF data.index # NoIndex /\ data.index \notin st.completedTensors
  THEN Invoke(st, "onTensorChunk", data)
  ELSE st

\* case 'tensor_chunk' of the coalescing client
CoalescingOnTensorChunk(st, data) ==
  IF data.index # NoIndex /\ data.index \notin st.completedTensors
  THEN throttle(st, ChunkKey(data.index), data)
  ELSE st

\* case 'tensor_complete' of the coalescing client: an exception of the
\* onTensorChunk of the final chunk leaves the case before the index is marked
CoalescingOnTensorComplete(st, data) ==
  IF data.index # NoIndex
  THEN LET cleared == clearTensorThrottles(st, data.index)
           final == IF Truthy(data.chunk) /\ data.index \notin cleared.completedTensors
                    THEN processChunkImmediate(cleared, data)
                    ELSE cleared
       IN IF final.thrown # NoError THEN final
          ELSE Invoke([final EXCEPT !.completedTensors = @ \cup {data.index}],
                      "onTensorComplete", data)
  ELSE Invoke(st, "onTensorComplete", data)

\* this.throttleTimers.forEach(timerId => clearTimeout(timerId)); this.throttleTimers.clear()
ClearAllTimers(st) ==
  [st EXCEPT !.timers = @ \ {st.throttleTimers[k] : k \in DOMAIN st.throttleTimers},
             !.throttleTimers = EmptyMap]

\* case 'complete' of the coalescing client
CoalescingOnComplete(st, data) ==
  LET r == Invoke(ClearAllTimers(st), "onComplete", data)
  IN IF r.thrown # NoError THEN r ELSE [r EXCEPT !.returned = TRUE]

\* switch (data.type) of the coalescing client
CoalescingSwitch(st, data) ==
  CASE data.type = "start" -> Invoke(st, "onStart", data)
    [] data.type = "progress" -> Invoke(st, "onProgress", data)
    [] data.type = "search_progress" -> OnSearchProgress(st, data)
    [] data.type = "search_complete" -> OnSearchComplete(st, data)
    [] data.type = "tensor_chunk" -> CoalescingOnTensorChunk(st, data)
    [] data.type = "tensor_complete" -> CoalescingOnTensorComplete(st, data)
    [] data.type = "tensor_error" -> Invoke(st, "onTensorError", data)
    [] data.type = "complete" -> CoalescingOnComplete(st, data)
    [] data.type \in {"error", "fatal_error"} -> OnErrorEvent(st, data)
    [] OTHER -> st

\* the body of  while (buffer.includes('\n\n'))  after the line is cut off
CoalescingDispatchLine(st, line) ==
  IF StartsWithData(line)
  THEN LET payload == Slice(line, 1, Len(line))
           tried == IF JsonParses(payload)
                    THEN LET data == JsonParse(payload)
                         IN CoalescingSwitch(
                              [st EXCEPT !.trace = Append(@, EventEntry(data))], data)
                    ELSE [st EXCEPT !.thrown = "SyntaxError"]
       IN CatchFrame(tried)
  ELSE st

\* while (buffer.includes('\n\n')) { lineEnd = indexOf; line = slice(0, lineEnd);
\* buffer = slice(lineEnd + 2); dispatch }: left early by the return of complete
RECURSIVE CoalescingLoop(_)
CoalescingLoop(st) ==
  LET lineEnd == IndexOfDelimiter(st.buffer, 0)
  IN IF lineEnd = -1 \/ st.returned \/ st.thrown # NoError THEN st
     ELSE CoalescingLoop(
            CoalescingDispatchLine(
              [st EXCEPT !.buffer = Slice(@, lineEnd + 2, Len(@))],
              Slice(st.buffer, 0, lineEnd)))

\* one iteration of the read loop of the coalescing client
CoalescingReadStep(st, value) ==
  LET dec == Decode(st.held, value)
  IN CoalescingLoop([st EXCEPT !.held = dec.held, !.buffer = @ \o dec.text])

\* ------------------------------------------------------------------ state
VARIABLES
  tensorBuffers,     \* this.tensorBuffers: job index -> fragments, on the keys it has
  completedTensors,  \* this.completedTensors
  pc,                \* per call of streamProcess: where it is suspended
  throwing,          \* per call: the callbacks of the caller that throw when invoked
  reader,            \* per call: a reader was acquired (response.body.getReader())
  released,          \* per call: how many times reader.releaseLock() was called
  buffer,            \* per call: let buffer
  held,              \* per call: the bytes the TextDecoder holds back
  trace,             \* per call: events decoded and callbacks invoked, in order
  outcome,           \* per call: the way the call ended
  consumed,          \* per call: every byte read() has delivered, in order
  produced,          \* per response: the texts the server has written, in order
  pending,           \* per response: bytes written and not yet delivered by read()
  lastRead,          \* per call: how many bytes the latest byte-level read delivered
  client,            \* the class the client is an instance of
  throttleTimers,    \* this.throttleTimers of the coalescing client: key -> timer
  timers,            \* the timers set with setTimeout that are neither fired nor cleared
  destroys,          \* how many times destroy() has been called
  manager            \* the TensorchatStreamingManager, when the client has one

vars == <<tensorBuffers, completedTensors, pc, throwing, reader, released, buffer,
          held, trace, outcome, consumed, produced, pending, lastRead,
          client, throttleTimers, timers, destroys, config, manager>>

\* what streamProcess of the buffering client never touches
others == <<client, throttleTimers, timers, destroys, config, manager>>

Callbacks == {"onSearchProgress", "onSearchComplete", "onTensorChunk",
              "onTensorComplete", "onComplete", "onError"}

\* no manager: the client was constructed directly
NoManager == [client |-> 0]

\* the config of a caller that leaves every option out
DefaultConfig == [throttleMs |-> Absent]

\* the fields of a client of the class `kind` right after new TensorchatStreaming(cfg),
\* no call made yet
NewClient(kind, cfg) ==
  /\ tensorBuffers = EmptyMap
  /\ completedTensors = {}
  /\ pc = [s \in Sessions |-> "idle"]
  /\ throwing = [s \in Sessions |-> {}]
  /\ reader = [s \in Sessions |-> FALSE]
  /\ released = [s \in Sessions |-> 0]
  /\ buffer = [s \in Sessions |-> <<>>]
  /\ held = [s \in Sessions |-> <<>>]
  /\ trace = [s \in Sessions |-> <<>>]
  /\ outcome = [s \in Sessions |-> "none"]
  /\ consumed = [s \in Sessions |-> <<>>]
  /\ produced = [s \in Sessions |-> <<>>]
  /\ pending = [s \in Sessions |-> <<>>]
  /\ lastRead = [s \in Sessions |-> 0]
  /\ client = kind
  /\ throttleTimers = EmptyMap
  /\ timers = {}
  /\ destroys = 0
  /\ config = cfg

\* new TensorchatStreaming(cfg) by the caller, without a manager
ConstructWith(kind, cfg) == NewClient(kind, cfg) /\ manager = NoManager

\* new TensorchatStreaming({apiKey}): every option left out
Construct(kind) == ConstructWith(kind, DefaultConfig)

Init == Construct("buffering")

\* the state a pass over the lines of call s starts from
St(s) ==
  [tensorBuffers |-> tensorBuffers, completedTensors |-> completedTensors,
   buffer |-> buffer[s], held |-> held[s], trace |-> trace[s],
   throwing |-> throwing[s], returned |-> FALSE, thrown |-> NoError]

\* releaseLock() after the loop in place of the finally block
FinallyAfterLoop(n, how) == IF how = "eos" THEN n + 1 ELSE n

\* finally { reader.releaseLock() }, on the way out of the read loop by `how`
Finally(n, how) == n + 1

\* CatchSession that reports nothing
CatchSessionSilent(tr, message) == tr

\* catch (error) { onError?.(error instanceof Error ? error : new Error(String(error))) }
CatchSession(tr, message) == Append(tr, CallEntry("onError", [message |-> message]))

\* the promise of streamProcess settles: it rejects only when onError itself throws
Settle(s, failed) ==
  IF failed /\ "onError" \in throwing[s] THEN "rejected" ELSE "resolved"

\* streamProcess(request, callbacks) up to  await fetch(...)
Start(s, thr) ==
  /\ pc[s] = "idle"
  /\ pc' = [pc EXCEPT ![s] = "fetch"]
  /\ throwing' = [throwing EXCEPT ![s] = thr]
  /\ UNCHANGED <<tensorBuffers, completedTensors, reader, released, buffer, held,
                 trace, outcome, consumed, produced, pending, lastRead>>
  /\ UNCHANGED others

\* fetch rejects, the response is not ok, or it has no readable body
FetchMessage(why) ==
  CASE why = "fetch_rejected" -> "fetch failed"
    [] why = "not_ok" -> "HTTP status: statusText"
    [] why = "no_body" -> "Response body is not readable"

\* FetchFails with the reset of lines 71-72 ahead of the tests of the response
FetchFailsAfterReset(s, why) ==
  /\ pc[s] = "fetch"
  /\ trace' = [trace EXCEPT ![s] = CatchSession(@, FetchMessage(why))]
  /\ outcome' = [outcome EXCEPT ![s] = why]
  /\ pc' = [pc EXCEPT ![s] = Settle(s, TRUE)]
  /\ completedTensors' = {}
  /\ tensorBuffers' = EmptyMap
  /\ UNCHANGED <<throwing, reader, released, buffer, held, consumed, produced,
                 pending, lastRead>>
  /\ UNCHANGED others

FetchFails(s, why) ==
  /\ pc[s] = "fetch"
  /\ trace' = [trace EXCEPT ![s] = CatchSession(@, FetchMessage(why))]
  /\ outcome' = [outcome EXCEPT ![s] = why]
  /\ pc' = [pc EXCEPT ![s] = Settle(s, TRUE)]
  /\ UNCHANGED <<tensorBuffers, completedTensors, throwing, reader, released, buffer,
                 held, consumed, produced, pending, lastRead>>
  /\ UNCHANGED others

\* FetchOk without the reset of lines 71-72
FetchOkKeepsState(s) ==
  /\ pc[s] = "fetch"
  /\ reader' = [reader EXCEPT ![s] = TRUE]
  /\ buffer' = [buffer EXCEPT ![s] = <<>>]
  /\ held' = [held EXCEPT ![s] = <<>>]
  /\ pc' = [pc EXCEPT ![s] = "read"]
  /\ UNCHANGED <<tensorBuffers, completedTensors, throwing, released, trace, outcome,
                 consumed, produced, pending, lastRead>>
  /\ UNCHANGED others

\* the response is ok and has a body: getReader, new TextDecoder, buffer = '',
\* both collections cleared, first read() issued
FetchOk(s) ==
  /\ pc[s] = "fetch"
  /\ reader' = [reader EXCEPT ![s] = TRUE]
  /\ buffer' = [buffer EXCEPT ![s] = <<>>]
  /\ held' = [held EXCEPT ![s] = <<>>]
  /\ completedTensors' = {}
  /\ tensorBuffers' = EmptyMap
  /\ pc' = [pc EXCEPT ![s] = "read"]
  /\ UNCHANGED <<throwing, released, trace, outcome, consumed, produced, pending, lastRead>>
  /\ UNCHANGED others

\* read() resolves {done: false, value}: one iteration of the loop, then either
\* the next read() or the way out (return of the complete case, or an exception
\* that left the loop)
ReadValue(s, value) ==
  \E r \in {ReadStep(St(s), value)} :
  LET leaves == r.returned \/ r.thrown # NoError
  IN /\ pc[s] = "read"
     /\ tensorBuffers' = r.tensorBuffers
     /\ completedTensors' = r.completedTensors
     /\ buffer' = [buffer EXCEPT ![s] = r.buffer]
     /\ held' = [held EXCEPT ![s] = r.held]
     /\ consumed' = [consumed EXCEPT ![s] = @ \o value]
     /\ trace' = [trace EXCEPT ![s] =
                    IF r.thrown # NoError THEN CatchSession(r.trace, r.thrown) ELSE r.trace]
     /\ released' = [released EXCEPT ![s] =
                       IF leaves THEN Finally(@, IF r.returned THEN "complete" ELSE "thrown")
                       ELSE @]
     /\ outcome' = [outcome EXCEPT ![s] =
                      IF r.returned THEN "complete"
                      ELSE IF r.thrown # NoError THEN "stream_error" ELSE @]
     /\ pc' = [pc EXCEPT ![s] = IF leaves THEN Settle(s, r.thrown # NoError) ELSE @]
     /\ UNCHANGED <<throwing, reader>>
     /\ UNCHANGED others

\* ReadDone that dispatches what is left in the buffer as a last line
ReadDoneFlushes(s) ==
  \E r \in {DispatchLine(St(s), buffer[s])} :
  /\ pc[s] = "read"
  /\ pending[s] = <<>>
  /\ released' = [released EXCEPT ![s] = Finally(@, "eos")]
  /\ outcome' = [outcome EXCEPT ![s] = "eos"]
  /\ trace' = [trace EXCEPT ![s] = r.trace]
  /\ tensorBuffers' = r.tensorBuffers
  /\ completedTensors' = r.completedTensors
  /\ pc' = [pc EXCEPT ![s] = Settle(s, FALSE)]
  /\ UNCHANGED <<throwing, reader, buffer, held, consumed, produced, pending, lastRead>>
  /\ UNCHANGED others

\* ReadDone that reports a stream that ended without a terminal event
ReadDoneReportsIncomplete(s) ==
  /\ pc[s] = "read"
  /\ pending[s] = <<>>
  /\ released' = [released EXCEPT ![s] = Finally(@, "eos")]
  /\ outcome' = [outcome EXCEPT ![s] = "eos"]
  /\ trace' = [trace EXCEPT ![s] = CatchSession(@, "incomplete stream")]
  /\ pc' = [pc EXCEPT ![s] = Settle(s, FALSE)]
  /\ UNCHANGED <<tensorBuffers, completedTensors, throwing, reader, buffer, held,
                 consumed, produced, pending, lastRead>>
  /\ UNCHANGED others

\* read() resolves {done: true}: break
ReadDone(s) ==
  /\ pc[s] = "read"
  /\ pending[s] = <<>>
  /\ released' = [released EXCEPT ![s] = Finally(@, "eos")]
  /\ outcome' = [outcome EXCEPT ![s] = "eos"]
  /\ pc' = [pc EXCEPT ![s] = Settle(s, FALSE)]
  /\ UNCHANGED <<tensorBuffers, completedTensors, throwing, reader, buffer, held,
                 trace, consumed, produced, pending, lastRead>>
  /\ UNCHANGED others

\* read() rejects
ReadFails(s) ==
  /\ pc[s] = "read"
  /\ released' = [released EXCEPT ![s] = Finally(@, "read_failed")]
  /\ trace' = [trace EXCEPT ![s] = CatchSession(@, "read failed")]
  /\ outcome' = [outcome EXCEPT ![s] = "read_failed"]
  /\ pc' = [pc EXCEPT ![s] = Settle(s, TRUE)]
  /\ UNCHANGED <<tensorBuffers, completedTensors, throwing, reader, buffer, held,
                 consumed, produced, pending, lastRead>>
  /\ UNCHANGED others

\* ------------------------------------------------------------------ responses
\* a frame on the wire: its body and the delimiter
Frame(body) == body \o <<Newline, Newline>>

DataFrame(ev) == Frame(<<DataPrefix, Json(ev)>>)

\* a data frame whose payload is not JSON
MalformedFrame == Frame(<<DataPrefix, Junk>>)

\* a comment frame, as servers send to keep the connection alive
Comment == [ch |-> ": keep-alive"]
CommentFrame == Frame(<<Comment>>)

\* a frame with an empty body
EmptyFrame == Frame(<<>>)

\* a data frame after one newline too many
LateFrame == Frame(<<Newline, DataPrefix, Json(TensorChunk(0, "b", 0))>>)

\* a data frame the response ends in the middle of: its delimiter never comes
CutFrame == <<DataPrefix, Json(TensorChunk(0, "a", 0))>>

\* the events a response of the frame-level specification is made of
Events ==
  {TensorChunk(0, "a", 0), TensorChunk(0, "b", 0), TensorChunk(1, "a", 0),
   TensorChunk(0, "", 0),
   TensorComplete(0, Undefined, 0), TensorComplete(1, "zz", 0),
   SearchProgress(0, 0), Complete(0), ErrorEvent("error", "boom", "det", 0)}

\* the frames a response of the frame-level specification is made of
Frames == {DataFrame(ev) : ev \in Events} \cup {MalformedFrame}

\* the producer numbers its frames: frame number q carries seq = q
Stamp(text, q) ==
  [j \in 1..Len(text) |->
     IF text[j].ch = "json" THEN Json([text[j].value EXCEPT !.seq = q]) ELSE text[j]]

\* the frames of a batch numbered on from n
StampAll(batch, n) == [j \in 1..Len(batch) |-> Stamp(batch[j], n + j)]

RECURSIVE Concat(_)
Concat(texts) == IF texts = <<>> THEN <<>> ELSE Head(texts) \o Concat(Tail(texts))

\* the server writes a batch of whole frames and read() delivers exactly them
ReadFrames(s, frames) ==
  LET batch == StampAll(frames, Len(produced[s]))
  IN /\ Len(produced[s]) + Len(frames) <= MaxFrames
     /\ ReadValue(s, Concat(batch))
     /\ produced' = [produced EXCEPT ![s] = @ \o batch]
     /\ UNCHANGED <<pending, lastRead>>

\* data lines the server sent without the delimiter, or with half of it
CutTensorComplete == <<DataPrefix, Json(TensorComplete(0, Undefined, 0))>>
CutComplete == <<DataPrefix, Json(Complete(0))>>
HalfCut == <<DataPrefix, Json(TensorChunk(0, "b", 0)), Newline>>

\* the pieces a response of the byte-level specification is made of
Pieces ==
  {DataFrame(TensorChunk(0, "a", 0)), DataFrame(Complete(0)),
   Frame(<<DataPrefix, LeadByte, ContByte>>), <<Newline>>, <<DataPrefix>>, <<LeadByte>>}

\* the server writes a piece
SendPiece(s, piece) ==
  /\ pc[s] = "read"
  /\ Len(produced[s]) < MaxPieces
  /\ produced' = [produced EXCEPT ![s] = Append(@, piece)]
  /\ pending' = [pending EXCEPT ![s] = @ \o piece]
  /\ UNCHANGED <<tensorBuffers, completedTensors, pc, throwing, reader, released,
                 buffer, held, trace, outcome, consumed, lastRead>>
  /\ UNCHANGED others

\* read() delivers the first n bytes the server has written
ReadBytes(s, n) ==
  /\ n <= Len(pending[s])
  /\ ReadValue(s, SubSeq(pending[s], 1, n))
  /\ pending' = [pending EXCEPT ![s] = SubSeq(@, n + 1, Len(@))]
  /\ lastRead' = [lastRead EXCEPT ![s] = n]
  /\ UNCHANGED produced

\* ------------------------------------------------------------------ destroy
\* what a call of destroy() never touches
calls == <<pc, throwing, reader, released, buffer, held, trace, outcome, consumed,
           produced, pending, lastRead, client, config, manager>>

\* destroy() that clears the fragment buffers only
DestroyBuffersOnly ==
  /\ destroys < MaxDestroys
  /\ tensorBuffers' = EmptyMap
  /\ destroys' = destroys + 1
  /\ UNCHANGED <<completedTensors, throttleTimers, timers>>
  /\ UNCHANGED calls

\* destroy() of the buffering client
Destroy ==
  /\ destroys < MaxDestroys
  /\ completedTensors' = {}
  /\ tensorBuffers' = EmptyMap
  /\ destroys' = destroys + 1
  /\ UNCHANGED <<throttleTimers, timers>>
  /\ UNCHANGED calls

\* ------------------------------------------------------------------ the manager
\* TensorchatStreamingManager: manager.client is the ordinal of the client it
\* holds (Null for null), manager.config its config, manager.made the number of
\* clients it has constructed, manager.log what it was asked and what it did to
\* its clients, in order.
Null == 0

\* obj.field: undefined when the object has no such field
Get(obj, field) == IF field \in DOMAIN obj THEN obj[field] ELSE Absent

\* { ...a, ...b }
Spread(a, b) == [f \in DOMAIN a \cup DOMAIN b |-> IF f \in DOMAIN b THEN b[f] ELSE a[f]]

\* initialize() that drops the client it holds without destroying it
initializeLeaks(m) ==
  [m EXCEPT !.client = m.made + 1, !.made = m.made + 1,
            !.log = Append(@, [op |-> "new", client |-> m.made + 1, config |-> m.config])]

\* initialize(): if (this.client) this.client.destroy(); this.client = new TensorchatStreaming(this.config)
initialize(m) ==
  LET destroyed == IF m.client # Null
                   THEN Append(m.log, [op |-> "client.destroy", client |-> m.client])
                   ELSE m.log
  IN [m EXCEPT !.client = m.made + 1, !.made = m.made + 1,
               !.log = Append(destroyed, [op |-> "new", client |-> m.made + 1, config |-> m.config])]

\* constructor(config) { this.config = config; this.initialize() }
NewManager(cfg) == initialize([client |-> Null, config |-> cfg, made |-> 0, log |-> <<>>])

\* updateConfig(newConfig)
updateConfig(m, newConfig) ==
  initialize([m EXCEPT !.config = Spread(@, newConfig),
                       !.log = Append(@, [op |-> "updateConfig", arg |-> newConfig])])

\* destroy() of the manager that destroys its client and keeps holding it
managerDestroyKeepsClient(m) ==
  LET called == [m EXCEPT !.log = Append(@, [op |-> "destroy"])]
  IN IF m.client # Null
     THEN [called EXCEPT !.log = Append(@, [op |-> "client.destroy", client |-> m.client])]
     ELSE called

\* destroy() of the manager
managerDestroy(m) ==
  LET called == [m EXCEPT !.log = Append(@, [op |-> "destroy"])]
  IN IF m.client # Null
     THEN [called EXCEPT !.log = Append(@, [op |-> "client.destroy", client |-> m.client]),
                         !.client = Null]
     ELSE called

\* getClient()
getClient(m) == m.client

\* the configs a manager is created with, and the partial configs it is updated with
ManagerConfigs == {[apiKey |-> "k1"], [apiKey |-> "k1", throttleMs |-> 100]}
NewConfigs ==
  {[f \in {} |-> Absent], [apiKey |-> "k2"], [throttleMs |-> 0],
   [apiKey |-> "k2", throttleMs |-> 100]}

\* the calls the caller has made on the manager
ManagerCalls == {k \in DOMAIN manager.log : manager.log[k].op \in {"updateConfig", "destroy"}}

\* createTensorchatStreaming(cfg): a manager and its first client
CreateManager(cfg) ==
  /\ NewClient("buffering", [throttleMs |-> Get(cfg, "throttleMs")])
  /\ manager = NewManager(cfg)

\* no call of streamProcess is between its start and its settlement
NoneInFlight == \A s \in Sessions : pc[s] \in {"idle", "resolved", "rejected"}

\* manager.updateConfig(newConfig), no call of streamProcess in flight: the
\* client held is destroyed and the state is that of the new client
UpdateConfig(newConfig) ==
  /\ Cardinality(ManagerCalls) < MaxCalls
  /\ NoneInFlight
  /\ manager' = updateConfig(manager, newConfig)
  /\ config' = [throttleMs |-> Get(manager'.config, "throttleMs")]
  /\ tensorBuffers' = EmptyMap
  /\ completedTensors' = {}
  /\ destroys' = 0
  /\ UNCHANGED <<pc, throwing, reader, released, buffer, held, trace, outcome, consumed,
                 produced, pending, lastRead, client, throttleTimers, timers>>

\* manager.destroy(), no call of streamProcess in flight
ManagerDestroy ==
  /\ Cardinality(ManagerCalls) < MaxCalls
  /\ NoneInFlight
  /\ manager' = managerDestroy(manager)
  /\ IF manager.client # Null
     THEN /\ tensorBuffers' = EmptyMap
          /\ completedTensors' = {}
          /\ destroys' = destroys + 1
     ELSE UNCHANGED <<tensorBuffers, completedTensors, destroys>>
  /\ UNCHANGED <<pc, throwing, reader, released, buffer, held, trace, outcome, consumed,
                 produced, pending, lastRead, client, throttleTimers, timers, config>>

\* manager.streamProcess(request, callbacks) as call s: without a client it
\* throws 'Tensorchat client not initialized' and the promise is rejected;
\* with one it returns the promise of this.client.streamProcess(request, callbacks)
ManagerStreamProcess(s) ==
  /\ pc[s] = "idle"
  /\ manager' = [manager EXCEPT !.log = Append(@, [op |-> "streamProcess", call |-> s,
                                                    client |-> manager.client])]
  /\ IF manager.client = Null
     THEN /\ pc' = [pc EXCEPT ![s] = "rejected"]
          /\ outcome' = [outcome EXCEPT ![s] = "Tensorchat client not initialized"]
          /\ UNCHANGED throwing
     ELSE /\ pc' = [pc EXCEPT ![s] = "fetch"]
          /\ throwing' = [throwing EXCEPT ![s] = {}]
          /\ UNCHANGED outcome
  /\ UNCHANGED <<tensorBuffers, completedTensors, reader, released, buffer, held, trace,
                 consumed, produced, pending, lastRead, client, throttleTimers, timers,
                 destroys, config>>

\* ------------------------------------------------------------------ the coalescing client, calls
\* the state a pass of call s of the coalescing client starts from
CoalescingSt(s) ==
  [completedTensors |-> completedTensors, throttleTimers |-> throttleTimers,
   timers |-> timers, buffer |-> buffer[s], held |-> held[s], trace |-> trace[s],
   throwing |-> throwing[s], returned |-> FALSE, thrown |-> NoError, call |-> s]

\* the response is ok and has a body: getReader, new TextDecoder, buffer = '',
\* completedTensors cleared, first read() issued
CoalescingFetchOk(s) ==
  /\ pc[s] = "fetch"
  /\ reader' = [reader EXCEPT ![s] = TRUE]
  /\ buffer' = [buffer EXCEPT ![s] = <<>>]
  /\ held' = [held EXCEPT ![s] = <<>>]
  /\ completedTensors' = {}
  /\ pc' = [pc EXCEPT ![s] = "read"]
  /\ UNCHANGED <<tensorBuffers, throwing, released, trace, outcome, consumed, produced,
                 pending, lastRead>>
  /\ UNCHANGED others

\* read() resolves {done: false, value}: one iteration of the loop
CoalescingReadValue(s, value) ==
  \E r \in {CoalescingReadStep(CoalescingSt(s), value)} :
  LET leaves == r.returned \/ r.thrown # NoError
  IN /\ pc[s] = "read"
     /\ completedTensors' = r.completedTensors
     /\ throttleTimers' = r.throttleTimers
     /\ timers' = r.timers
     /\ buffer' = [buffer EXCEPT ![s] = r.buffer]
     /\ held' = [held EXCEPT ![s] = r.held]
     /\ consumed' = [consumed EXCEPT ![s] = @ \o value]
     /\ trace' = [trace EXCEPT ![s] =
                    IF r.thrown # NoError THEN CatchSession(r.trace, r.thrown) ELSE r.trace]
     /\ released' = [released EXCEPT ![s] =
                       IF leaves THEN Finally(@, IF r.returned THEN "complete" ELSE "thrown")
                       ELSE @]
     /\ outcome' = [outcome EXCEPT ![s] =
                      IF r.returned THEN "complete"
                      ELSE IF r.thrown # NoError THEN "stream_error" ELSE @]
     /\ pc' = [pc EXCEPT ![s] = IF leaves THEN Settle(s, r.thrown # NoError) ELSE @]
     /\ UNCHANGED <<tensorBuffers, throwing, reader, client, destroys, config, manager>>

\* the server writes a batch of whole frames and read() delivers exactly them
CoalescingReadFrames(s, frames) ==
  LET batch == StampAll(frames, Len(produced[s]))
  IN /\ Len(produced[s]) + Len(frames) <= MaxFrames
     /\ CoalescingReadValue(s, Concat(batch))
     /\ produced' = [produced EXCEPT ![s] = @ \o batch]
     /\ UNCHANGED <<pending, lastRead>>

\* a timer expires and the function throttle gave to setTimeout runs; when
\* onTensorChunk throws, the exception leaves the function before the delete
TimerFires(t) ==
  LET tensorIndex == IF t.key[1] = "chunk" THEN KeyIndex(t.key) ELSE -1
      invokes == tensorIndex = -1 \/ tensorIndex \notin completedTensors
      threw == invokes /\ "onTensorChunk" \in throwing[t.call]
  IN /\ t \in timers
     /\ timers' = timers \ {t}
     /\ trace' = [trace EXCEPT ![t.call] =
                    IF invokes THEN Append(@, CallEntry("onTensorChunk", t.data)) ELSE @]
     /\ throttleTimers' =
          IF threw THEN throttleTimers
          ELSE [k \in DOMAIN throttleTimers \ {t.key} |-> throttleTimers[k]]
     /\ UNCHANGED <<tensorBuffers, completedTensors, pc, throwing, reader, released,
                    buffer, held, outcome, consumed, produced, pending, lastRead,
                    client, destroys, config, manager>>

\* destroy() of the coalescing client
CoalescingDestroy ==
  /\ destroys < MaxDestroys
  /\ timers' = timers \ {throttleTimers[k] : k \in DOMAIN throttleTimers}
  /\ throttleTimers' = EmptyMap
  /\ completedTensors' = {}
  /\ destroys' = destroys + 1
  /\ UNCHANGED tensorBuffers
  /\ UNCHANGED calls

\* ------------------------------------------------------------------ specifications
\* one call of streamProcess whose callbacks return normally; reads deliver whole frames
Next ==
  \/ Start(1, {})
  \/ \E why \in {"fetch_rejected", "not_ok", "no_body"} : FetchFails(1, why)
  \/ FetchOk(1)
  \/ \E k \in 1..MaxBatch : Len(produced[1]) + k <= MaxFrames /\ \E frames \in [1..k -> Frames] : ReadFrames(1, frames)
  \/ ReadDone(1)
  \/ ReadFails(1)

Spec == Init /\ [][Next]_vars

\* one call of streamProcess; the response is cut into reads at arbitrary bytes
NextBytes ==
  \/ Start(1, {})
  \/ FetchOk(1)
  \/ \E piece \in Pieces : SendPiece(1, piece)
  \/ \E n \in 1..MaxRead : ReadBytes(1, n)
  \/ ReadDone(1)

SpecBytes == Init /\ [][NextBytes]_vars

\* the sets of callbacks a caller may pass that throw when invoked
ThrowingSets == {{}, {"onError"}, {"onTensorChunk"}, {"onComplete", "onError"}}

\* the frames a response to a caller with throwing callbacks is made of
FramesThrow ==
  {DataFrame(TensorChunk(0, "a", 0)), DataFrame(TensorComplete(0, Undefined, 0)),
   DataFrame(Complete(0))}

\* one call of streamProcess; some of the caller's callbacks throw
NextThrow ==
  \/ \E thr \in ThrowingSets : Start(1, thr)
  \/ \E why \in {"fetch_rejected", "not_ok", "no_body"} : FetchFails(1, why)
  \/ FetchOk(1)
  \/ \E k \in 1..MaxBatch : Len(produced[1]) + k <= MaxFrames /\ \E frames \in [1..k -> FramesThrow] : ReadFrames(1, frames)
  \/ ReadDone(1)
  \/ ReadFails(1)

SpecThrow == Init /\ [][NextThrow]_vars

\* the same call on a finite response: a read() that is awaited settles, with
\* the end of the stream or a failure at the latest when the response is used up
SpecFinite == SpecThrow /\ WF_vars(ReadDone(1) \/ ReadFails(1))

\* the sets of event callbacks that throw, of the callers of SpecAbsorb
ThrowingEventSets ==
  {{}, {"onSearchProgress", "onSearchComplete"}, {"onTensorChunk"}, {"onTensorComplete"},
   {"onComplete"}}

\* the frames of a response to a caller whose event callbacks throw
FramesAbsorb ==
  {DataFrame(SearchProgress(0, 0)), DataFrame(SearchComplete(0, 0)),
   DataFrame(TensorChunk(0, "a", 0)), DataFrame(TensorComplete(0, Undefined, 0)),
   DataFrame(Complete(0))}

\* one call of streamProcess; some of the caller's event callbacks throw
NextAbsorb ==
  \/ \E thr \in ThrowingEventSets : Start(1, thr)
  \/ FetchOk(1)
  \/ \E k \in 1..MaxBatch : Len(produced[1]) + k <= MaxFrames /\ \E frames \in [1..k -> FramesAbsorb] : ReadFrames(1, frames)
  \/ ReadDone(1)

SpecAbsorb == Init /\ [][NextAbsorb]_vars

\* what a response is made of whose server leaves delimiters out
FramesTail ==
  {DataFrame(TensorChunk(0, "a", 0)), CutTensorComplete, CutComplete, HalfCut}

\* one call of streamProcess over such a response
NextTail ==
  \/ Start(1, {})
  \/ FetchOk(1)
  \/ \E k \in 1..MaxBatch : Len(produced[1]) + k <= MaxFrames /\ \E frames \in [1..k -> FramesTail] : ReadFrames(1, frames)
  \/ ReadDone(1)

SpecTail == Init /\ [][NextTail]_vars

\* the frames of a response whose per-job events miss fields
FramesPartial ==
  {DataFrame(TensorChunk(NoIndex, "a", 0)), DataFrame(TensorChunk(0, Undefined, 0)),
   DataFrame(TensorChunk(0, "", 0)), DataFrame(TensorComplete(NoIndex, Undefined, 0)),
   DataFrame(TensorChunk(0, "a", 0)), DataFrame(TensorComplete(0, Undefined, 0))}

\* one call of streamProcess over such a response
NextPartial ==
  \/ Start(1, {})
  \/ FetchOk(1)
  \/ \E k \in 1..MaxBatch : Len(produced[1]) + k <= MaxFrames /\ \E frames \in [1..k -> FramesPartial] : ReadFrames(1, frames)
  \/ ReadDone(1)

SpecPartial == Init /\ [][NextPartial]_vars

\* the frames of a response that carries events of every per-job and session type
FramesEvents ==
  {DataFrame(StartEvent(0)), DataFrame(Progress(0, 0)), DataFrame(TensorError(0, 0)),
   DataFrame(SearchComplete(0, 0)), DataFrame(TensorChunk(0, "a", 0)),
   DataFrame(TensorComplete(0, Undefined, 0))}

\* one call of streamProcess on a response with events of every type
NextEvents ==
  \/ Start(1, {})
  \/ FetchOk(1)
  \/ \E k \in 1..MaxBatch : Len(produced[1]) + k <= MaxFrames /\ \E frames \in [1..k -> FramesEvents] : ReadFrames(1, frames)
  \/ ReadDone(1)

SpecEvents == Init /\ [][NextEvents]_vars

\* the frames of a response to the coalescing client
FramesCoalescing ==
  {DataFrame(TensorChunk(0, "a", 0)), DataFrame(TensorChunk(0, "b", 0)),
   DataFrame(TensorChunk(1, "a", 0)), DataFrame(TensorComplete(0, Undefined, 0)),
   DataFrame(TensorCompleteWithChunk(0, "z", 0)), DataFrame(Complete(0))}

\* one call of streamProcess of the coalescing client; timers expire at any time
NextCoalescing ==
  \/ Start(1, {})
  \/ CoalescingFetchOk(1)
  \/ \E k \in 1..MaxBatch : Len(produced[1]) + k <= MaxFrames /\ \E frames \in [1..k -> FramesCoalescing] : CoalescingReadFrames(1, frames)
  \/ \E t \in timers : TimerFires(t)
  \/ ReadDone(1)

SpecCoalescing == Construct("coalescing") /\ [][NextCoalescing]_vars

\* the frames of a response with search notifications and frames that are not
\* data frames
FramesNotices ==
  {DataFrame(SearchProgress(0, 0)), DataFrame(SearchComplete(0, 0)),
   DataFrame(TensorChunk(0, "a", 0)), DataFrame(TensorComplete(0, Undefined, 0)),
   CommentFrame, EmptyFrame, LateFrame}

\* one call of streamProcess over such a response
NextNotices ==
  \/ Start(1, {})
  \/ FetchOk(1)
  \/ \E k \in 1..MaxBatch : Len(produced[1]) + k <= MaxFrames /\ \E frames \in [1..k -> FramesNotices] : ReadFrames(1, frames)
  \/ ReadDone(1)

SpecNotices == Init /\ [][NextNotices]_vars

\* the frame of the response to a call made through a manager
FramesManager == {DataFrame(TensorChunk(0, "a", 0))}

\* a manager and the calls of its caller that reconfigure it, destroy it and
\* stream through it
NextManager ==
  \/ \E newConfig \in NewConfigs : UpdateConfig(newConfig)
  \/ ManagerDestroy
  \/ \E s \in Sessions : ManagerStreamProcess(s)
  \/ \E s \in Sessions : FetchOk(s)
  \/ \E s \in Sessions : produced[s] = <<>> /\ \E frame \in FramesManager : ReadFrames(s, <<frame>>)
  \/ \E s \in Sessions : ReadDone(s)

SpecManager == (\E cfg \in ManagerConfigs : CreateManager(cfg)) /\ [][NextManager]_vars

\* one call of streamProcess of the coalescing client by a caller whose
\* onTensorChunk may throw
NextCoalescingThrow ==
  \/ \E thr \in {{}, {"onTensorChunk"}} : Start(1, thr)
  \/ CoalescingFetchOk(1)
  \/ \E k \in 1..MaxBatch : Len(produced[1]) + k <= MaxFrames /\ \E frames \in [1..k -> FramesCoalescing] : CoalescingReadFrames(1, frames)
  \/ \E t \in timers : TimerFires(t)
  \/ ReadDone(1)

SpecCoalescingThrow == Construct("coalescing") /\ [][NextCoalescingThrow]_vars

\* the coalescing delays a caller configures
Delays == {0, 100}

\* one call of streamProcess of a coalescing client constructed with
\* {apiKey, throttleMs: ms}
SpecDelay ==
  (\E ms \in Delays : ConstructWith("coalescing", [throttleMs |-> ms])) /\ [][NextCoalescing]_vars

\* the frames of a response to a client that is destroyed at some time
FramesDestroy ==
  {DataFrame(TensorChunk(0, "a", 0)), DataFrame(TensorChunk(1, "b", 0)),
   DataFrame(TensorComplete(0, Undefined, 0)), DataFrame(Complete(0))}

\* a client of either class, one call of streamProcess, and destroy() called at
\* any time: before the call, while it reads, after it has settled
NextDestroy ==
  \/ Start(1, {})
  \/ client = "buffering" /\ FetchOk(1)
  \/ client = "buffering" /\ \E k \in 1..MaxBatch : Len(produced[1]) + k <= MaxFrames /\ \E frames \in [1..k -> FramesDestroy] : ReadFrames(1, frames)
  \/ client = "buffering" /\ Destroy
  \/ client = "coalescing" /\ CoalescingFetchOk(1)
  \/ client = "coalescing" /\ \E k \in 1..MaxBatch : Len(produced[1]) + k <= MaxFrames /\ \E frames \in [1..k -> FramesDestroy] : CoalescingReadFrames(1, frames)
  \/ client = "coalescing" /\ \E t \in timers : TimerFires(t)
  \/ client = "coalescing" /\ CoalescingDestroy
  \/ ReadDone(1)

SpecDestroy ==
  (\E kind \in {"buffering", "coalescing"} : Construct(kind)) /\ [][NextDestroy]_vars

\* a call of streamProcess has settled
Settled == {"resolved", "rejected"}

\* the frames of the responses to two calls on one client
FramesTwo ==
  {DataFrame(TensorChunk(0, "a", 0)), DataFrame(TensorChunk(1, "b", 0)),
   DataFrame(TensorComplete(0, Undefined, 0)), DataFrame(Complete(0)), CutFrame}

\* one client reused: the second call of streamProcess is made after the first
\* has settled
NextReuse ==
  \/ \E s \in Sessions : (s = 2 => pc[1] \in Settled) /\ Start(s, {})
  \/ \E s \in Sessions : \E why \in {"fetch_rejected", "not_ok", "no_body"} : FetchFails(s, why)
  \/ \E s \in Sessions : FetchOk(s)
  \/ \E s \in Sessions : \E k \in 1..MaxBatch : Len(produced[s]) + k <= MaxFramesEach /\ \E frames \in [1..k -> FramesTwo] : ReadFrames(s, frames)
  \/ \E s \in Sessions : ReadDone(s)
  \/ \E s \in Sessions : ReadFails(s)

SpecReuse == Init /\ [][NextReuse]_vars

\* one client, two calls of streamProcess in flight at once: each is suspended at
\* its own await and the event loop resumes them in any order
NextOverlap ==
  \/ \E s \in Sessions : Start(s, {})
  \/ \E s \in Sessions : FetchOk(s)
  \/ \E s \in Sessions : \E k \in 1..MaxBatch : Len(produced[s]) + k <= MaxFramesEach /\ \E frames \in [1..k -> FramesTwo] : ReadFrames(s, frames)
  \/ \E s \in Sessions : ReadDone(s)

SpecOverlap == Init /\ [][NextOverlap]_vars

\* the frames of the responses to the calls on a client that is destroyed at some time
FramesLifecycle ==
  {DataFrame(TensorChunk(0, "a", 0)), DataFrame(TensorComplete(0, Undefined, 0)),
   DataFrame(Complete(0))}

\* one buffering client: two calls of streamProcess, in flight at once or one
\* after the other, and destroy() called at any time
NextLifecycle ==
  \/ \E s \in Sessions : Start(s, {})
  \/ \E s \in Sessions : FetchOk(s)
  \/ \E s \in Sessions : \E k \in 1..MaxBatch : Len(produced[s]) + k <= MaxFramesEach /\ \E frames \in [1..k -> FramesLifecycle] : ReadFrames(s, frames)
  \/ \E s \in Sessions : ReadDone(s)
  \/ Destroy

SpecLifecycle == Init /\ [][NextLifecycle]_vars

\* ------------------------------------------------------------------ the trace, read
\* positions of the trace of call s where an event of the type for index i was decoded
EventsOf(s, type, i) ==
  {k \in DOMAIN trace[s] : /\ trace[s][k].kind = "event"
                           /\ trace[s][k].data.type = type
                           /\ trace[s][k].data.index = i}

\* positions of the trace of call s where callback cb was invoked for index i
CallsOf(s, cb, i) ==
  {k \in DOMAIN trace[s] : /\ trace[s][k].kind = "call"
                           /\ trace[s][k].cb = cb
                           /\ trace[s][k].arg.index = i}

\* positions of the trace of call s where callback cb was invoked
CallsTo(s, cb) ==
  {k \in DOMAIN trace[s] : trace[s][k].kind = "call" /\ trace[s][k].cb = cb}

\* positions where an event of one of the types was decoded
EventsTyped(s, types) ==
  {k \in DOMAIN trace[s] : trace[s][k].kind = "event" /\ trace[s][k].data.type \in types}

PerJobCallbacks == {"onTensorChunk", "onTensorComplete", "onSearchProgress", "onSearchComplete"}

\* the event at position k invoked no callback: the next entry, if any, is an
\* event, or the onError of a read() that failed afterwards
Silent(s, k) ==
  \/ k = Len(trace[s])
  \/ trace[s][k + 1].kind = "event"
  \/ trace[s][k + 1] = CallEntry("onError", [message |-> "read failed"])

\* ------------------------------------------------------------------ C1
\* C1: in a session without destroy(), for an index i that received exactly one
\* tensor_complete: onTensorComplete was invoked exactly once for i, every
\* onTensorChunk for i came before it, and a tensor_chunk for i decoded after the
\* tensor_complete invoked nothing and buffered nothing.
C1_ExactlyOnceCompletion ==
  \A i \in Idx :
    Cardinality(EventsOf(1, "tensor_complete", i)) = 1 =>
      LET done == CHOOSE k \in EventsOf(1, "tensor_complete", i) : TRUE
      IN /\ CallsOf(1, "onTensorComplete", i) = {done + 1}
         /\ \A k \in CallsOf(1, "onTensorChunk", i) : k < done + 1
         /\ \A k \in EventsOf(1, "tensor_chunk", i) : k > done => Silent(1, k)
         /\ i \notin DOMAIN tensorBuffers

\* a fragment was delivered for index 0, index 0 completed, and a late fragment
\* for index 0 was decoded after that
C1_Witness ==
  \E k \in EventsOf(1, "tensor_complete", 0) :
    /\ Cardinality(EventsOf(1, "tensor_complete", 0)) = 1
    /\ \E c \in CallsOf(1, "onTensorChunk", 0) : c < k
    /\ \E c \in EventsOf(1, "tensor_chunk", 0) : c > k /\ Truthy(trace[1][c].data.chunk)

\* ------------------------------------------------------------------ C2
\* C2: once onTensorComplete was delivered for index i, no per-job callback is
\* invoked for i again in the session.
C2_CompletionIsLast ==
  \A i \in Idx : \A p \in CallsOf(1, "onTensorComplete", i) :
    \A cb \in PerJobCallbacks : \A q \in CallsOf(1, cb, i) : q <= p

\* ------------------------------------------------------------------ C3
\* the fragments of the tensor_chunk events for index i decoded before position p
RECURSIVE FragmentsBefore(_, _, _)
FragmentsBefore(s, i, p) ==
  IF p <= 1 THEN <<>>
  ELSE LET e == trace[s][p - 1]
       IN IF e.kind = "event" /\ e.data.type = "tensor_chunk" /\ e.data.index = i
             /\ e.data.chunk # Undefined
          THEN Append(FragmentsBefore(s, i, p - 1), e.data.chunk)
          ELSE FragmentsBefore(s, i, p - 1)

\* positions of the first tensor_complete decoded for index i (none or one)
FirstComplete(s, i) ==
  {k \in EventsOf(s, "tensor_complete", i) :
     \A j \in EventsOf(s, "tensor_complete", i) : k <= j}

C4_ErrorReported ==
  \A k \in EventsTyped(1, {"error", "fatal_error"}) :
    /\ Cardinality(CallsTo(1, "onError")) = 1
    /\ \A c \in CallsTo(1, "onError") :
         trace[1][c].arg.message = StreamErrorMessage(trace[1][k].data)
    /\ pc[1] = "resolved"

\* ------------------------------------------------------------------ C5
\* C5: after an error or fatal_error event the session is over: nothing more is
\* decoded or dispatched and no further read is issued.
C5_ErrorTerminates ==
  \A k \in EventsTyped(1, {"error", "fatal_error"}) :
    /\ \A j \in DOMAIN trace[1] :
         j > k => trace[1][j].kind = "call" /\ trace[1][j].cb = "onError"
    /\ pc[1] # "read"

\* ------------------------------------------------------------------ C6
\* the state right after FetchOk
Fresh(s) ==
  [tensorBuffers |-> EmptyMap, completedTensors |-> {}, buffer |-> <<>>,
   held |-> <<>>, trace |-> <<>>, throwing |-> throwing[s], returned |-> FALSE,
   thrown |-> NoError]

\* the loop iteration of a session whose first read delivers the whole of text
OneRead(s, text) == ReadStep(Fresh(s), text)

\* C6: however the bytes of the response are cut into reads, the events decoded
\* and the callbacks invoked are those of the same bytes delivered by one read.
C6_SplitInvariance ==
  pc[1] \in {"read", "resolved"} => trace[1] = OneRead(1, consumed[1]).trace

\* the previous read ended between the two newlines that end the first frame, a
\* data frame, and its event was decoded once
C6_Witness ==
  /\ lastRead[1] > 0
  /\ Len(consumed[1]) - lastRead[1] = 3
  /\ SubSeq(consumed[1], 1, 4) = DataFrame(TensorChunk(0, "a", 0))
  /\ Cardinality(EventsOf(1, "tensor_chunk", 0)) = 1
  /\ Cardinality(CallsOf(1, "onTensorChunk", 0)) = 1

\* ------------------------------------------------------------------ C7
\* a data frame whose payload JSON.parse rejects
Malformed(frame) ==
  LET body == SubSeq(frame, 1, Len(frame) - 2)
  IN StartsWithData(body) /\ ~JsonParses(Tail(body))

\* C7: a malformed data frame leaves no mark: as long as neither fetch nor read()
\* has failed, trace and per-job state are those of the same stream without its
\* malformed frames, and onError has not been invoked.
C7_MalformedDropped ==
  outcome[1] \notin {"fetch_rejected", "not_ok", "no_body", "read_failed"} =>
    LET clean == SelectSeq(produced[1], LAMBDA f : ~Malformed(f))
        w == OneRead(1, Concat(clean))
    IN /\ trace[1] = w.trace
       /\ tensorBuffers = w.tensorBuffers
       /\ completedTensors = w.completedTensors
       /\ CallsTo(1, "onError") = {}

\* a malformed frame between two valid frames whose callbacks were both invoked
C7_Witness ==
  /\ Len(produced[1]) = 3
  /\ Malformed(produced[1][2])
  /\ CallsOf(1, "onTensorChunk", 0) = {2}
  /\ CallsOf(1, "onTensorComplete", 0) = {4}
  /\ Len(trace[1]) = 4

Dispatched(s) ==
  {k \in DOMAIN trace[s] : trace[s][k].kind = "call" /\ trace[s][k].cb # "onError"}

\* C9: callbacks are invoked in the order of their frames in the byte stream:
\* each invocation is for the frame the producer numbered arg.seq, and the
\* numbers increase along the trace.
C9_StreamOrder ==
  /\ \A p, q \in Dispatched(1) : p < q => trace[1][p].arg.seq < trace[1][q].arg.seq
  /\ \A p \in Dispatched(1) :
       LET a == trace[1][p].arg
       IN /\ a.seq \in 1..Len(produced[1])
          /\ produced[1][a.seq][2].ch = "json"
          /\ produced[1][a.seq][2].value.type = a.type
          /\ produced[1][a.seq][2].value.index = a.index

\* callbacks of three kinds were invoked, for both indices
C9_Witness ==
  /\ CallsOf(1, "onTensorChunk", 1) # {}
  /\ CallsOf(1, "onSearchProgress", 0) # {}
  /\ CallsOf(1, "onTensorComplete", 0) # {}
  /\ Cardinality(Dispatched(1)) >= 4

\* ------------------------------------------------------------------ C10
\* C10: releaseLock() is called exactly once when a call that acquired a reader
\* ends, by whatever path, and is never called otherwise.
C10_ReleasedOnce ==
  \A s \in Sessions :
    released[s] = IF reader[s] /\ pc[s] \in {"resolved", "rejected"} THEN 1 ELSE 0

\* a read() failed after callbacks had been delivered, and the reader was released
C10_Witness ==
  /\ outcome[1] = "read_failed"
  /\ reader[1]
  /\ released[1] = 1
  /\ Dispatched(1) # {}

\* ------------------------------------------------------------------ C11
\* the trace of call s up to the onError of the session boundary
BeforeOnError(s) == SubSeq(trace[s], 1, Len(trace[s]) - 1)

\* C11 as stated: when read() fails the call resolves, onError was invoked exactly
\* once, with the failure, as the last callback, and what was delivered before
\* the failure stands.
C11_ReadFailureResolves ==
  outcome[1] = "read_failed" =>
    /\ pc[1] = "resolved"
    /\ CallsTo(1, "onError") = {Len(trace[1])}
    /\ trace[1][Len(trace[1])].arg.message = "read failed"
    /\ BeforeOnError(1) = OneRead(1, consumed[1]).trace

\* C11 amended: when read() fails, onError is invoked exactly once, with the
\* failure, as the last callback, and what was delivered before stands; the call
\* resolves when onError returns and rejects when onError itself throws.
C11_ReadFailureReported ==
  outcome[1] = "read_failed" =>
    /\ pc[1] = (IF "onError" \in throwing[1] THEN "rejected" ELSE "resolved")
    /\ CallsTo(1, "onError") = {Len(trace[1])}
    /\ trace[1][Len(trace[1])].arg.message = "read failed"
    /\ BeforeOnError(1) = OneRead(1, consumed[1]).trace

\* read() failed after a fragment had been delivered, and the call resolved
C11_Witness ==
  /\ outcome[1] = "read_failed"
  /\ pc[1] = "resolved"
  /\ CallsOf(1, "onTensorChunk", 0) # {}
  /\ Len(trace[1]) >= 3

\* ------------------------------------------------------------------ C12
\* C12: when the response is not ok or has no readable body, onError is the one
\* callback invoked, nothing is read or decoded, no reader is acquired or
\* released, and what an earlier call left in tensorBuffers and completedTensors
\* is still there.
C12_TransportFailure ==
  \A s \in Sessions :
    outcome[s] \in {"not_ok", "no_body"} =>
      /\ trace[s] = <<CallEntry("onError", [message |-> FetchMessage(outcome[s])])>>
      /\ consumed[s] = <<>>
      /\ ~reader[s]
      /\ released[s] = 0
      /\ pc[s] = "resolved"
      /\ s = 2 => LET left == OneRead(1, consumed[1])
                  IN tensorBuffers = left.tensorBuffers
                     /\ completedTensors = left.completedTensors

\* the second call met a response that is not ok on a client whose first call
\* left a fragment buffer and a completed flag behind
C12_Witness ==
  /\ outcome[2] = "not_ok"
  /\ DOMAIN tensorBuffers = {1}
  /\ completedTensors = {0}

\* ------------------------------------------------------------------ C13
\* C13: when the stream ends and no complete, error or fatal_error event was
\* decoded, the call resolves, neither onError nor onComplete was invoked, and
\* onTensorComplete was invoked for no index without a tensor_complete event.
C13_QuietEndOfStream ==
  (outcome[1] = "eos" /\ EventsTyped(1, {"complete", "error", "fatal_error"}) = {}) =>
    /\ pc[1] = "resolved"
    /\ CallsTo(1, "onError") = {}
    /\ CallsTo(1, "onComplete") = {}
    /\ \A i \in Idx :
         EventsOf(1, "tensor_complete", i) = {} => CallsOf(1, "onTensorComplete", i) = {}

\* the stream ended after fragments of index 0 and no tensor_complete
C13_Witness ==
  /\ outcome[1] = "eos"
  /\ EventsOf(1, "tensor_chunk", 0) # {}
  /\ EventsOf(1, "tensor_complete", 0) = {}
  /\ EventsTyped(1, {"complete"}) = {}
  /\ 0 \in DOMAIN tensorBuffers

\* ------------------------------------------------------------------ C14
\* C14: a tensor_error event for index i invokes onTensorError with the event,
\* invokes neither onError nor onTensorComplete, does not mark i completed, and
\* leaves the session reading.
C14_TensorErrorReported ==
  \A i \in Idx : \A k \in EventsOf(1, "tensor_error", i) :
    /\ k < Len(trace[1])
    /\ trace[1][k + 1] = CallEntry("onTensorError", trace[1][k].data)
    /\ CallsTo(1, "onError") = {}
    /\ EventsOf(1, "tensor_complete", i) = {} =>
         (i \notin completedTensors /\ CallsOf(1, "onTensorComplete", i) = {})
    /\ outcome[1] = "none" => pc[1] = "read"

\* ------------------------------------------------------------------ C15
\* C15: two calls in flight on one client do not share per-job state: in each
\* call the record handed to onTensorComplete at the first tensor_complete of
\* index i carries exactly the fragments that call's own stream delivered for i
\* before it, and a fragment for an index the call has not seen complete is
\* delivered to onTensorChunk.
C15_CallsIsolated ==
  \A s \in Sessions : \A i \in Idx :
    /\ \A k \in FirstComplete(s, i) :
         /\ trace[s][k + 1].arg.streamBuffers = FragmentsBefore(s, i, k)
         /\ trace[s][k + 1].arg.content = Join(FragmentsBefore(s, i, k))
    /\ \A k \in EventsOf(s, "tensor_chunk", i) :
         (\A c \in EventsOf(s, "tensor_complete", i) : k < c) =>
           (k < Len(trace[s]) /\ trace[s][k + 1] = CallEntry("onTensorChunk", trace[s][k].data))

\* ------------------------------------------------------------------ C16
\* C16: a second call made after the first has settled runs as on a fresh client:
\* once it is past fetch, its decode buffer, the fragment buffers, the completed
\* flags and its trace are those of a new client that read the same bytes.
C16_ReuseStartsFresh ==
  reader[2] =>
    LET w == OneRead(2, consumed[2])
    IN /\ buffer[2] = w.buffer
       /\ tensorBuffers = w.tensorBuffers
       /\ completedTensors = w.completedTensors
       /\ trace[2] = IF outcome[2] = "read_failed"
                     THEN CatchSession(w.trace, "read failed") ELSE w.trace

\* the first call completed index 0 and ended with undelimited text in its decode
\* buffer; the second call delivered a fragment of index 0 and completed it
C16_Witness ==
  /\ EventsOf(1, "tensor_complete", 0) # {}
  /\ buffer[1] # <<>>
  /\ CallsOf(2, "onTensorChunk", 0) # {}
  /\ \E k \in CallsOf(2, "onTensorComplete", 0) : trace[2][k].arg.streamBuffers = <<"a">>

\* ------------------------------------------------------------------ C17
\* C17: once a call has settled, by the complete event, the end of the stream or
\* a failure, the client holds no fragment buffer.
C17_BuffersReleased ==
  pc[1] \in Settled => tensorBuffers = EmptyMap

\* ------------------------------------------------------------------ C18
\* the client holds no fragment buffer, no completed flag and no timer
Clean ==
  /\ tensorBuffers = EmptyMap
  /\ completedTensors = {}
  /\ throttleTimers = EmptyMap
  /\ timers = {}

\* C18: a call of destroy(), in whatever state and however many came before,
\* leaves the client with no fragment buffer, no completed flag and no pending
\* timer, and touches nothing of the calls in flight (no read, no callback, no
\* settlement); on a client that is already clean it changes nothing.
C18_DestroyClears ==
  [][destroys' # destroys =>
       /\ Clean'
       /\ UNCHANGED calls
       /\ Clean => UNCHANGED <<tensorBuffers, completedTensors, throttleTimers, timers>>]_vars

\* destroy() was called twice on a coalescing client that reads: the fragment of
\* index 1 was decoded, its timer is gone and onTensorChunk was never invoked
C18_Witness ==
  /\ client = "coalescing"
  /\ destroys = 2
  /\ pc[1] = "read"
  /\ Clean
  /\ EventsOf(1, "tensor_chunk", 1) # {}
  /\ CallsOf(1, "onTensorChunk", 1) = {}
  /\ EventsTyped(1, {"complete"}) = {}

\* ------------------------------------------------------------------ C19
Max(S) == CHOOSE x \in S : \A y \in S : x >= y

\* positions of the trace of call s where a timer invoked onTensorChunk for index i
TimerCalls(s, i) ==
  {k \in CallsOf(s, "onTensorChunk", i) : trace[s][k].arg.type = "tensor_chunk"}

\* C19: the tensor_chunk events for an index that arrive with no timer expiry
\* between them result in one onTensorChunk, carrying the latest of them: every
\* invocation by a timer carries the latest tensor_chunk event decoded for the
\* index before it, two invocations are separated by a new event, and the
\* latest accepted event is pending, delivered or cancelled by a completion.
C19_Supersession ==
  \A i \in Idx :
    /\ \A p \in TimerCalls(1, i) :
         LET before == {e \in EventsOf(1, "tensor_chunk", i) : e < p}
         IN /\ before # {}
            /\ trace[1][p].arg = trace[1][Max(before)].data
            /\ \A q \in TimerCalls(1, i) : q < p => \E e \in before : q < e
    /\ EventsOf(1, "tensor_chunk", i) # {} =>
         LET e == Max(EventsOf(1, "tensor_chunk", i))
         IN \/ Timer(ChunkKey(i), 1, trace[1][e].data) \in timers
            \/ \E p \in TimerCalls(1, i) : p > e
            \/ \E c \in EventsOf(1, "tensor_complete", i) \cup EventsTyped(1, {"complete"}) : c > e
            \/ \E c \in EventsOf(1, "tensor_complete", i) : c < e

\* three fragments of index 0 arrived before any timer expired; the timer then
\* invoked onTensorChunk once, with the third
C19_Witness ==
  /\ Len(trace[1]) = 4
  /\ EventsOf(1, "tensor_chunk", 0) = {1, 2, 3}
  /\ TimerCalls(1, 0) = {4}
  /\ trace[1][4].arg.seq = 3
  /\ timers = {}

\* ------------------------------------------------------------------ C20
\* C20: a tensor_complete for index i cancels the pending timer of i before
\* onTensorComplete is invoked and leaves the timers of other indices alone: no
\* onTensorChunk for i comes after an onTensorComplete for i, no timer is pending
\* for a completed index, and the timer of an index that has seen neither its
\* tensor_complete nor the complete event is pending until it fires.
C20_CancelledAtCompletion ==
  /\ \A i \in Idx : \A p \in CallsOf(1, "onTensorComplete", i) :
       \A q \in CallsOf(1, "onTensorChunk", i) : q < p
  /\ \A t \in timers : KeyIndex(t.key) \notin completedTensors
  /\ \A j \in Idx :
       (/\ EventsOf(1, "tensor_chunk", j) # {}
        /\ EventsOf(1, "tensor_complete", j) = {}
        /\ EventsTyped(1, {"complete"}) = {}) =>
         LET e == Max(EventsOf(1, "tensor_chunk", j))
         IN \/ Timer(ChunkKey(j), 1, trace[1][e].data) \in timers
            \/ \E p \in TimerCalls(1, j) : p > e

\* fragments of indices 0 and 1 were pending when index 0 completed: the timer
\* of index 0 never fired, the timer of index 1 is still pending
C20_Witness ==
  /\ EventsOf(1, "tensor_chunk", 0) # {}
  /\ CallsOf(1, "onTensorChunk", 0) = {}
  /\ CallsOf(1, "onTensorComplete", 0) # {}
  /\ \E t \in timers : t.key = ChunkKey(1)
  /\ \A k \in EventsOf(1, "tensor_chunk", 1) : \A c \in EventsOf(1, "tensor_complete", 0) : k < c

\* ------------------------------------------------------------------ C21
\* C21: the last fragment is never lost: the latest tensor_chunk decoded for
\* index i before its first tensor_complete has been handed to onTensorChunk, or
\* is in the record handed to onTensorComplete, or is still pending on a timer.
C21_LastFragmentDelivered ==
  \A i \in Idx : \A c \in FirstComplete(1, i) :
    LET before == {e \in EventsOf(1, "tensor_chunk", i) : e < c}
    IN before # {} =>
         LET last == trace[1][Max(before)].data
         IN \/ \E p \in CallsOf(1, "onTensorChunk", i) : trace[1][p].arg = last
            \/ \E p \in CallsOf(1, "onTensorComplete", i) :
                 last.chunk \in {trace[1][p].arg.chunk, trace[1][p].arg.content}
            \/ Timer(ChunkKey(i), 1, last) \in timers

\* ------------------------------------------------------------------ C22
\* C22: a client configured with a coalescing delay of 0 dispatches every
\* accepted tensor_chunk to onTensorChunk at once, within the dispatch of the
\* event, and never has a pending timer entry.
C22_ZeroDisablesCoalescing ==
  config.throttleMs = 0 =>
    /\ timers = {}
    /\ throttleTimers = EmptyMap
    /\ \A i \in Idx : \A e \in EventsOf(1, "tensor_chunk", i) :
         (\A c \in FirstComplete(1, i) : e < c) =>
           /\ e < Len(trace[1])
           /\ trace[1][e + 1] = CallEntry("onTensorChunk", trace[1][e].data)

\* ------------------------------------------------------------------ C23
\* C23: once streamProcess of the coalescing client has settled, by any way out,
\* no coalescing timer is pending, so no onTensorChunk can run afterwards.
C23_NoTimerAfterSettle ==
  pc[1] \in Settled => timers = {} /\ throttleTimers = EmptyMap

\* ------------------------------------------------------------------ C24
SearchTypes == {"search_progress", "search_complete"}

SearchCallback(type) ==
  IF type = "search_progress" THEN "onSearchProgress" ELSE "onSearchComplete"

\* a data frame that carries a search notification
SearchFrame(frame) ==
  LET body == SubSeq(frame, 1, Len(frame) - 2)
  IN /\ StartsWithData(body)
     /\ JsonParses(Tail(body))
     /\ JsonParse(Tail(body)).type \in SearchTypes

\* an entry of the trace that a search notification made
SearchEntry(entry) ==
  \/ entry.kind = "event" /\ entry.data.type \in SearchTypes
  \/ entry.kind = "call" /\ entry.cb \in {"onSearchProgress", "onSearchComplete"}

\* C24: a search_progress or search_complete event invokes its own callback
\* once, with the event, and nothing else; buffers, completed flags and every
\* other callback are those of the same stream without its search frames.
C24_SearchPassesThrough ==
  /\ \A k \in EventsTyped(1, SearchTypes) :
       /\ k < Len(trace[1])
       /\ trace[1][k + 1] = CallEntry(SearchCallback(trace[1][k].data.type), trace[1][k].data)
       /\ k + 1 = Len(trace[1]) \/ trace[1][k + 2].kind = "event"
  /\ CallsTo(1, "onSearchProgress") \cup CallsTo(1, "onSearchComplete")
       = {k + 1 : k \in EventsTyped(1, SearchTypes)}
  /\ \E w \in {OneRead(1, Concat(SelectSeq(produced[1], LAMBDA f : ~SearchFrame(f))))} :
       /\ tensorBuffers = w.tensorBuffers
       /\ completedTensors = w.completedTensors
       /\ SelectSeq(trace[1], LAMBDA entry : ~SearchEntry(entry)) = w.trace

\* a fragment of index 0, then a search notification for index 0, then the
\* completion of index 0, whose record still holds the fragment
C24_Witness ==
  /\ Len(produced[1]) = 3
  /\ CallsOf(1, "onTensorChunk", 0) = {2}
  /\ CallsTo(1, "onSearchProgress") \cup CallsTo(1, "onSearchComplete") = {4}
  /\ CallsOf(1, "onTensorComplete", 0) = {6}
  /\ trace[1][6].arg.content = "a"

\* ------------------------------------------------------------------ C25
\* a frame whose body does not begin with 'data: '
NotData(frame) == ~StartsWithData(SubSeq(frame, 1, Len(frame) - 2))

\* C25: a frame whose body does not begin with 'data: ' is ignored: trace and
\* per-job state are those of the same stream without such frames, and onError
\* has not been invoked.
C25_NonDataIgnored ==
  \E w \in {OneRead(1, Concat(SelectSeq(produced[1], LAMBDA f : ~NotData(f))))} :
    /\ trace[1] = w.trace
    /\ tensorBuffers = w.tensorBuffers
    /\ completedTensors = w.completedTensors
    /\ CallsTo(1, "onError") = {}

\* a fragment, then a data frame after an extra newline, then the completion:
\* the record of index 0 holds the first fragment only
C25_Witness ==
  /\ Len(produced[1]) = 3
  /\ produced[1][2] = Stamp(LateFrame, 2)
  /\ CallsOf(1, "onTensorChunk", 0) = {2}
  /\ CallsOf(1, "onTensorComplete", 0) = {4}
  /\ Len(trace[1]) = 4

\* ------------------------------------------------------------------ C26
\* C26: every start event decoded invokes onStart with the event and every
\* progress event invokes onProgress with the event, at its place in the stream.
C26_StartAndProgressReported ==
  \A k \in EventsTyped(1, {"start", "progress"}) :
    /\ k < Len(trace[1])
    /\ trace[1][k + 1] =
         CallEntry(IF trace[1][k].data.type = "start" THEN "onStart" ELSE "onProgress",
                   trace[1][k].data)

\* ------------------------------------------------------------------ C27
\* the latest client constructed before position k of the manager's log
ClientBefore(k) ==
  manager.log[Max({n \in 1..(k - 1) : manager.log[n].op = "new"})]

\* C27: as long as destroy() has not been called on the manager, getClient()
\* is not null, and each updateConfig(newConfig) destroyed the client held
\* before it, once, and constructed a new client with a config that has the
\* fields of newConfig and otherwise those of the config before; the client
\* held is the latest one constructed.
C27_ManagerKeepsClient ==
  LET log == manager.log IN
  (\A k \in DOMAIN log : log[k].op # "destroy") =>
    /\ getClient(manager) # Null
    /\ getClient(manager) = ClientBefore(Len(log) + 1).client
    /\ manager.config = ClientBefore(Len(log) + 1).config
    /\ \A k \in DOMAIN log : log[k].op = "updateConfig" =>
         LET old == ClientBefore(k) IN
         /\ k + 2 <= Len(log)
         /\ log[k + 1] = [op |-> "client.destroy", client |-> old.client]
         /\ Cardinality({n \in DOMAIN log :
                           log[n] = [op |-> "client.destroy", client |-> old.client]}) = 1
         /\ log[k + 2].op = "new"
         /\ \A n \in 1..(k + 1) : log[n].op = "new" => log[n].client # log[k + 2].client
         /\ DOMAIN log[k + 2].config = DOMAIN old.config \cup DOMAIN log[k].arg
         /\ \A f \in DOMAIN log[k + 2].config :
              log[k + 2].config[f] =
                IF f \in DOMAIN log[k].arg THEN log[k].arg[f] ELSE old.config[f]

\* created with {apiKey: 'k1', throttleMs: 100}, then updateConfig({throttleMs: 0})
\* and updateConfig({apiKey: 'k2'}): the third client has both new fields
C27_Witness ==
  /\ Cardinality(ManagerCalls) = 2
  /\ getClient(manager) = 3
  /\ manager.config = [apiKey |-> "k2", throttleMs |-> 0]
  /\ config = [throttleMs |-> 0]

\* ------------------------------------------------------------------ C28
\* C28: whatever the interleaving of stream events, destroy() and new calls of
\* streamProcess, no index is both marked completed and the key of a fragment
\* buffer: the step that marks an index releases its buffer, and no buffer is
\* created for an index while it is marked.
C28_CompletedHasNoBuffer ==
  completedTensors \cap DOMAIN tensorBuffers = {}

\* call 1 buffered a fragment of index 0, destroy() was called, call 2 completed
\* index 0, and the next fragment of index 0 in call 1 was dropped
C28_Witness ==
  /\ destroys >= 1
  /\ completedTensors = {0}
  /\ CallsOf(2, "onTensorComplete", 0) # {}
  /\ CallsOf(1, "onTensorChunk", 0) = {2}
  /\ Len(trace[1]) = 3
  /\ trace[1][3].kind = "event" /\ trace[1][3].data.type = "tensor_chunk"

\* ------------------------------------------------------------------ C29
\* C29: with destroy() called at any time during the session of a buffering
\* client, once onTensorComplete was delivered for index i no onTensorChunk is
\* delivered for i afterwards and no fragment of i is buffered again.
C29_GuardSurvivesDestroy ==
  client = "buffering" =>
    \A i \in Idx : \A p \in CallsOf(1, "onTensorComplete", i) :
      /\ \A q \in CallsOf(1, "onTensorChunk", i) : q < p
      /\ i \notin DOMAIN tensorBuffers

\* ------------------------------------------------------------------ C30
\* the fragments handed to onTensorChunk for index i before position p, in order
RECURSIVE DeliveredBefore(_, _, _)
DeliveredBefore(s, i, p) ==
  IF p <= 1 THEN <<>>
  ELSE LET e == trace[s][p - 1]
       IN IF e.kind = "call" /\ e.cb = "onTensorChunk" /\ e.arg.index = i
          THEN Append(DeliveredBefore(s, i, p - 1), e.arg.chunk)
          ELSE DeliveredBefore(s, i, p - 1)

\* C30: with destroy() called at any time during the session of a buffering
\* client, the content handed to onTensorComplete at the first tensor_complete
\* of index i is the concatenation, in order, of the fragments handed to
\* onTensorChunk for i before it.
C30_ContentIsWhatWasDelivered ==
  client = "buffering" =>
    \A i \in Idx : \A k \in FirstComplete(1, i) :
      /\ trace[1][k + 1].arg.streamBuffers = DeliveredBefore(1, i, k)
      /\ trace[1][k + 1].arg.content = Join(DeliveredBefore(1, i, k))

\* ------------------------------------------------------------------ C31
\* the lines with the delimiter after each, then the rest
RECURSIVE Rebuild(_, _)
Rebuild(lines, rest) ==
  IF lines = <<>> THEN rest
  ELSE Head(lines) \o <<Newline, Newline>> \o Rebuild(Tail(lines), rest)

HasDelimiter(text) == IndexOfDelimiter(text, 0) # -1

\* the text the decoder has produced from the bytes read so far
DecodedSoFar(s) == Decode(<<>>, consumed[s]).text

\* every stretch of text, the empty one included
Stretches(text) ==
  {SubSeq(text, a, b) : a \in 1..(Len(text) + 1), b \in 0..Len(text)}

\* C31: for every buffer (every stretch of the text read so far), processBuffer
\* returns lines and a remainder that rebuild the buffer, neither holding a
\* delimiter, and nothing for the empty buffer; extracting from a first part and
\* then from the remainder followed by the rest gives the lines of the whole,
\* once each; the buffer of a reading session is the remainder of all it read.
C31_ExtractionRebuilds ==
  \E text \in {DecodedSoFar(1)} :
    /\ \A buf \in Stretches(text) :
         \E r \in {processBuffer(buf)} :
           /\ Rebuild(r.lines, r.remainingBuffer) = buf
           /\ \A k \in DOMAIN r.lines : ~HasDelimiter(r.lines[k])
           /\ ~HasDelimiter(r.remainingBuffer)
           /\ buf = <<>> => r = [lines |-> <<>>, remainingBuffer |-> <<>>]
    /\ \E whole \in {processBuffer(text)} :
         /\ \A cut \in 0..Len(text) :
              \E first \in {processBuffer(SubSeq(text, 1, cut))} :
                \E second \in {processBuffer(first.remainingBuffer
                                               \o SubSeq(text, cut + 1, Len(text)))} :
                  /\ first.lines \o second.lines = whole.lines
                  /\ second.remainingBuffer = whole.remainingBuffer
         /\ pc[1] = "read" => buffer[1] = whole.remainingBuffer

\* three newlines in a row were read, the first two ended a frame and the third
\* is what the session keeps in its buffer
C31_Witness ==
  /\ pc[1] = "read"
  /\ buffer[1] = <<Newline>>
  /\ Len(DecodedSoFar(1)) >= 3
  /\ SubSeq(DecodedSoFar(1), Len(DecodedSoFar(1)) - 2, Len(DecodedSoFar(1)))
       = <<Newline, Newline, Newline>>
  /\ Len(processBuffer(DecodedSoFar(1)).lines) >= 1

\* ------------------------------------------------------------------ C32
\* C32: the optimized extractor and the original extractor return the same
\* lines and the same remainder for every buffer, and after each of two
\* successive reads, wherever the text is cut.
C32_ExtractorsAgree ==
  \E text \in {DecodedSoFar(1)} :
    /\ \A buf \in Stretches(text) : processBuffer(buf) = originalExtract(buf, <<>>)
    /\ \A cut \in 0..Len(text) :
         \E first \in {processBuffer(SubSeq(text, 1, cut))} :
           /\ first = originalExtract(SubSeq(text, 1, cut), <<>>)
           /\ processBuffer(first.remainingBuffer \o SubSeq(text, cut + 1, Len(text)))
                = originalExtract(first.remainingBuffer \o SubSeq(text, cut + 1, Len(text)), <<>>)

\* the text read holds two complete frames and an unterminated rest
C32_Witness ==
  /\ Len(processBuffer(DecodedSoFar(1)).lines) = 2
  /\ processBuffer(DecodedSoFar(1)).remainingBuffer # <<>>
  /\ originalExtract(DecodedSoFar(1), <<>>).remainingBuffer # <<>>

\* ------------------------------------------------------------------ C33
\* C33: in the coalescing client at most one timer is pending per key, and the
\* pending timers are exactly the timers throttleTimers records: a timer that
\* fired or was cancelled has no entry.
C33_OneTimerPerKey ==
  /\ \A t1 \in timers : \A t2 \in timers : t1.key = t2.key => t1 = t2
  /\ timers = {throttleTimers[k] : k \in DOMAIN throttleTimers}

\* ------------------------------------------------------------------ C34
\* C34: in a session whose callbacks return normally, onComplete and onError
\* together are invoked at most once, and nothing is decoded or invoked after
\* that call.
C34_OneTerminalCallback ==
  \E term \in {CallsTo(1, "onComplete") \cup CallsTo(1, "onError")} :
    /\ Cardinality(term) <= 1
    /\ \A k \in term : k = Len(trace[1])

\* an error event was decoded, reported nothing, and a later read() failed:
\* onError was invoked once, last
C34_Witness ==
  /\ outcome[1] = "read_failed"
  /\ EventsTyped(1, {"error", "fatal_error"}) # {}
  /\ EventsTyped(1, {"tensor_chunk"}) # {}
  /\ CallsTo(1, "onError") = {Len(trace[1])}

\* ------------------------------------------------------------------ C35
\* C35: an exception of an event callback ends at the handler of its frame:
\* onError is not invoked and the call does not reject; when onComplete is not
\* among the callbacks that throw, events decoded, callbacks invoked, buffers
\* and completed flags are those of the same stream with callbacks that return
\* normally; when onComplete throws, the session does not end at a complete
\* event: every frame read is decoded, each complete event invoking onComplete.
C35_CallbackExceptionAbsorbed ==
  /\ CallsTo(1, "onError") = {}
  /\ pc[1] # "rejected"
  /\ "onComplete" \notin throwing[1] =>
       \E w \in {ReadStep([Fresh(1) EXCEPT !.throwing = {}], consumed[1])} :
         /\ trace[1] = w.trace
         /\ tensorBuffers = w.tensorBuffers
         /\ completedTensors = w.completedTensors
  /\ "onComplete" \in throwing[1] =>
       /\ outcome[1] # "complete"
       /\ Cardinality({k \in DOMAIN trace[1] : trace[1][k].kind = "event"}) = Len(produced[1])
       /\ \A k \in EventsTyped(1, {"complete"}) :
            /\ k < Len(trace[1])
            /\ trace[1][k + 1] = CallEntry("onComplete", trace[1][k].data)

\* onComplete threw at a complete event and the fragment of the next frame was
\* delivered and is buffered
C35_Witness ==
  /\ throwing[1] = {"onComplete"}
  /\ pc[1] = "read"
  /\ \E k \in EventsTyped(1, {"complete"}) : CallsOf(1, "onTensorChunk", 0) = {k + 3}
  /\ tensorBuffers = (0 :> <<"a">>)

\* ------------------------------------------------------------------ C36
\* the text ends with the delimiter
Terminated(text) ==
  Len(text) >= 2 /\ SubSeq(text, Len(text) - 1, Len(text)) = <<Newline, Newline>>

\* C36: when the stream has ended, what was read after the last delimiter is
\* still in the buffer and was never decoded: events, callbacks, buffers and
\* flags are those of the text up to its last delimiter, every event decoded
\* came in a piece that ends with the delimiter, onError was not invoked and
\* the call has resolved.
C36_TailDiscarded ==
  outcome[1] = "eos" =>
    \E whole \in {processBuffer(DecodedSoFar(1))} :
      /\ buffer[1] = whole.remainingBuffer
      /\ \E w \in {OneRead(1, Rebuild(whole.lines, <<>>))} :
           /\ trace[1] = w.trace
           /\ tensorBuffers = w.tensorBuffers
           /\ completedTensors = w.completedTensors
      /\ \A k \in DOMAIN trace[1] :
           trace[1][k].kind = "event" => Terminated(produced[1][trace[1][k].data.seq])
      /\ CallsTo(1, "onError") = {}
      /\ pc[1] = "resolved"

\* a fragment was delivered, then the stream ended after a complete event sent
\* without its delimiter: onComplete was not invoked
C36_Witness ==
  /\ outcome[1] = "eos"
  /\ Len(produced[1]) = 2
  /\ buffer[1] = Stamp(CutComplete, 2)
  /\ CallsOf(1, "onTensorChunk", 0) = {2}
  /\ Len(trace[1]) = 2

\* ------------------------------------------------------------------ C37
\* a tensor_chunk event without index or without a non-empty chunk, or a
\* tensor_complete event without index
Void(data) ==
  \/ data.type = "tensor_chunk" /\ (data.index = NoIndex \/ ~Truthy(data.chunk))
  \/ data.type = "tensor_complete" /\ data.index = NoIndex

\* a data frame that carries such an event
VoidFrame(frame) ==
  LET body == SubSeq(frame, 1, Len(frame) - 2)
  IN StartsWithData(body) /\ JsonParses(Tail(body)) /\ Void(JsonParse(Tail(body)))

\* C37: a tensor_chunk event without index or without a non-empty chunk and a
\* tensor_complete event without index invoke nothing and change nothing:
\* callbacks, buffers and flags are those of the stream without them. Events of
\* index 0 are processed: a fragment decoded before the completion of index 0
\* is handed to onTensorChunk, a tensor_complete to onTensorComplete.
C37_VoidEventsIgnored ==
  /\ \A k \in DOMAIN trace[1] :
       (trace[1][k].kind = "event" /\ Void(trace[1][k].data)) => Silent(1, k)
  /\ \E w \in {OneRead(1, Concat(SelectSeq(produced[1], LAMBDA f : ~VoidFrame(f))))} :
       /\ tensorBuffers = w.tensorBuffers
       /\ completedTensors = w.completedTensors
       /\ SelectSeq(trace[1], LAMBDA entry : ~(entry.kind = "event" /\ Void(entry.data)))
            = w.trace
  /\ \A k \in EventsOf(1, "tensor_chunk", 0) :
       (Truthy(trace[1][k].data.chunk) /\ \A c \in EventsOf(1, "tensor_complete", 0) : k < c)
         => /\ k < Len(trace[1])
            /\ trace[1][k + 1] = CallEntry("onTensorChunk", trace[1][k].data)
  /\ \A k \in EventsOf(1, "tensor_complete", 0) :
       k < Len(trace[1]) /\ trace[1][k + 1].kind = "call" /\ trace[1][k + 1].cb = "onTensorComplete"

\* a fragment of index 0, then a fragment without index, an empty fragment and
\* a tensor_complete without index in any order, none of which invoked a
\* callback; the buffer of index 0 holds the one fragment
C37_Witness ==
  /\ Len(produced[1]) = 4
  /\ CallsOf(1, "onTensorChunk", 0) = {2}
  /\ Len(trace[1]) = 5
  /\ \A k \in 3..5 : trace[1][k].kind = "event" /\ Void(trace[1][k].data)
  /\ \E k \in 3..5 : trace[1][k].data.type = "tensor_complete"
  /\ \E k \in 3..5 : trace[1][k].data.index = NoIndex /\ trace[1][k].data.type = "tensor_chunk"
  /\ tensorBuffers = (0 :> <<"a">>)
  /\ completedTensors = {}

\* ------------------------------------------------------------------ C38
\* the lifecycle operations the manager's log holds before position k
LifecycleBefore(k) ==
  {n \in 1..(k - 1) : manager.log[n].op \in {"updateConfig", "destroy"}}

\* destroy() is the latest lifecycle operation before position k of the log
DestroyedBefore(k) ==
  LifecycleBefore(k) # {} /\ manager.log[Max(LifecycleBefore(k))].op = "destroy"

\* C38: getClient() is null exactly when destroy() is the latest of the
\* manager's construction, updateConfig() and destroy(); no client is destroyed
\* twice, so a destroy() without a client does nothing; a streamProcess() made
\* then is rejected with 'Tensorchat client not initialized', has issued no
\* request, acquired no reader and invoked no callback; a streamProcess() made
\* after a later updateConfig() is given to the fresh client.
C38_NullExactlyAfterDestroy ==
  LET log == manager.log IN
  /\ getClient(manager) = Null <=> DestroyedBefore(Len(log) + 1)
  /\ getClient(manager) # Null => getClient(manager) = ClientBefore(Len(log) + 1).client
  /\ \A k \in DOMAIN log : log[k].op = "client.destroy" =>
       Cardinality({n \in DOMAIN log : log[n] = log[k]}) = 1
  /\ \A k \in DOMAIN log : (log[k].op = "destroy" /\ DestroyedBefore(k)) =>
       (k = Len(log) \/ log[k + 1].op # "client.destroy")
  /\ \A k \in DOMAIN log : log[k].op = "streamProcess" =>
       IF DestroyedBefore(k)
       THEN /\ log[k].client = Null
            /\ pc[log[k].call] = "rejected"
            /\ outcome[log[k].call] = "Tensorchat client not initialized"
            /\ trace[log[k].call] = <<>>
            /\ ~reader[log[k].call]
            /\ produced[log[k].call] = <<>>
       ELSE /\ log[k].client = ClientBefore(k).client
            /\ pc[log[k].call] \in {"fetch", "read", "resolved"}
            /\ outcome[log[k].call] # "Tensorchat client not initialized"

\* destroy() twice, a streamProcess() that was rejected, updateConfig(), and a
\* streamProcess() on the second client that delivered a fragment and resolved
C38_Witness ==
  /\ Len(manager.log) >= 7
  /\ manager.log[2] = [op |-> "destroy"]
  /\ manager.log[4] = [op |-> "destroy"]
  /\ manager.log[5] = [op |-> "streamProcess", call |-> 1, client |-> Null]
  /\ manager.log[6].op = "updateConfig"
  /\ manager.log[Len(manager.log)] = [op |-> "streamProcess", call |-> 2, client |-> 2]
  /\ pc[1] = "rejected" /\ trace[1] = <<>>
  /\ pc[2] = "resolved" /\ CallsTo(2, "onTensorChunk") # {}

\* ------------------------------------------------------------------ C39
\* C39 as stated, in the form a finite run refutes: a call that acquired the
\* reader and has settled is resolved, with the reader released.
C39_SettlesResolved ==
  (reader[1] /\ pc[1] \in Settled) => (pc[1] = "resolved" /\ released[1] = 1)

\* C39 amended: on a finite response a call that acquired the reader
\* eventually settles with the reader released, once, and stays so; it is
\* rejected only when the reader failed and onError itself threw, and resolved
\* otherwise. For every buffer (every stretch of the text read so far) the
\* search position of processBuffer strictly increases, by two at least, stays
\* within the buffer, and takes one value more than there are lines.
C39_FiniteStreamSettles ==
  /\ reader[1] ~> [](pc[1] \in Settled /\ released[1] = 1)
  /\ [](pc[1] = "rejected" =>
          (~reader[1] \/ ("onError" \in throwing[1] /\ outcome[1] = "read_failed")))
  /\ [](released[1] <= 1 /\ (released[1] = 1 => reader[1] /\ pc[1] \in Settled))
  /\ [](\A buf \in Stretches(consumed[1]) :
          \E p \in {SearchPositions(buf, 0)} :
            /\ p[1] = 0
            /\ \A i \in 1..(Len(p) - 1) : p[i] + 2 <= p[i + 1]
            /\ p[Len(p)] <= Len(buf)
            /\ Len(p) = Len(processBuffer(buf).lines) + 1)

\* three frames were read, then read() failed and onError threw: the call is
\* rejected and the reader released
C39_Witness ==
  /\ reader[1]
  /\ Len(produced[1]) = 3
  /\ outcome[1] = "read_failed"
  /\ pc[1] = "rejected"
  /\ released[1] = 1

====
